---- MODULE Spec2Model ----
(***************************************************************************)
(* Bilibili comment crawler: the batch coordinator, the per-target         *)
(* traversal of pinned comments, root-comment pages and reply pages, the   *)
(* CSV sink, the completion ledger, the configuration gate, and the        *)
(* retrying HTTP session of the API client.                                *)
(*                                                                         *)
(* The program is one sequential thread; pc is its position.  Remote       *)
(* responses, disk faults and malformed payloads are inputs chosen by the  *)
(* environment at the step that consumes them.                             *)
(***************************************************************************)
EXTENDS Integers, Sequences, FiniteSets, TLC

(***************************************************************************)
(* Bounds of the model.                                                    *)
(***************************************************************************)
MaxTasks == 2      \* longest descriptor list loaded by a batch run
MaxEnd == 2        \* largest page number a configuration may name
MaxRcount == 3     \* largest declared reply count of a root comment
MaxFaults == 1     \* disk faults the environment may inject in one run
MaxServed == 2     \* non-empty lists the remote serves to a direct crawl_single_target
MaxServedBatch == 1  \* non-empty lists the remote serves in one batch run
MaxPs == 2         \* largest page size tried by a direct crawl_single_target
MaxBudget == 3     \* largest retry budget tried on the HTTP session
MaxSinkRows == 6   \* rows after which the record sink is called no further
MaxServedThread == 4 \* lists served in the crawl of one thread from page 1
MaxFeedPages == 3  \* feed requests after which the remote announces no further page

(***************************************************************************)
(* Program constants.                                                      *)
(***************************************************************************)
VIDEO == 1
DYNAMIC_IMAGE == 11
DYNAMIC_TEXT == 17
PS_MIN == 1
PS_MAX == 20
COOKIES_DEFAULT == "write-your-cookies"      \* the placeholder of create_default_config
JCT_DEFAULT == "bili_jct-of-the-cookie"      \* the placeholder of create_default_config
CSV_HEADERS == <<"header">>                  \* the header row of BilibiliCrawler

(***************************************************************************)
(* Configuration: the content of config.json and CrawlConfig.validate.     *)
(***************************************************************************)
CookieValues == {"", COOKIES_DEFAULT, "SESSDATA=abc"}
JctValues == {"", JCT_DEFAULT, "abc123"}
PsValues == {PS_MIN - 1, PS_MAX, PS_MAX + 1}

ConfigFiles ==
    {[file |-> f, cookies_str |-> "", bili_jct |-> "", ps |-> 1, start |-> 1, end |-> 1] :
        f \in {"missing", "empty"}}
    \cup
    [file : {"ok"}, cookies_str : CookieValues, bili_jct : JctValues,
     ps : PsValues, start : 0..MaxEnd, end : 1..MaxEnd]

\* A validation that checks the credentials and the page size only.
validate_credentials_only(c) ==
    (IF c.cookies_str = "" \/ c.cookies_str = COOKIES_DEFAULT
        THEN <<"cookies_str">> ELSE <<>>)
    \o (IF c.bili_jct = "" \/ c.bili_jct = JCT_DEFAULT
        THEN <<"bili_jct">> ELSE <<>>)
    \o (IF ~(PS_MIN <= c.ps /\ c.ps <= PS_MAX) THEN <<"ps">> ELSE <<>>)

\* A validation that returns at the first error it finds.
validate_first_error(c) ==
    IF c.cookies_str = "" \/ c.cookies_str = COOKIES_DEFAULT THEN <<"cookies_str">>
    ELSE IF c.bili_jct = "" \/ c.bili_jct = JCT_DEFAULT THEN <<"bili_jct">>
    ELSE IF ~(PS_MIN <= c.ps /\ c.ps <= PS_MAX) THEN <<"ps">>
    ELSE IF c.start < 1 THEN <<"start_page">>
    ELSE IF c.end < c.start THEN <<"end_page">>
    ELSE <<>>

\* CrawlConfig.validate: the list of errors, in the order the code appends them.
validate(c) ==
    (IF c.cookies_str = "" \/ c.cookies_str = COOKIES_DEFAULT
        THEN <<"cookies_str">> ELSE <<>>)
    \o (IF c.bili_jct = "" \/ c.bili_jct = JCT_DEFAULT
        THEN <<"bili_jct">> ELSE <<>>)
    \o (IF ~(PS_MIN <= c.ps /\ c.ps <= PS_MAX) THEN <<"ps">> ELSE <<>>)
    \o (IF c.start < 1 THEN <<"start_page">> ELSE <<>>)
    \o (IF c.end < c.start THEN <<"end_page">> ELSE <<>>)

\* load_json_config gives {} for a missing or unparsable file, and load_config
\* refuses an empty dictionary before it validates.
load_config(c) ==
    IF c.file # "ok" THEN FALSE
    ELSE validate(c) = <<>>

(***************************************************************************)
(* Targets and descriptor lists.  An oid of 0 stands for an object id that *)
(* av2bv refuses (not a positive integer).                                 *)
(***************************************************************************)
TargetSet ==
    {[oid |-> 0, type |-> VIDEO], [oid |-> 1, type |-> VIDEO],
     [oid |-> 2, type |-> DYNAMIC_IMAGE]}

\* CommentType(int(cell)) for the text of a kind cell; a text outside the
\* domain (not a number, or no member of the enumeration) raises ValueError.
CommentType ==
    [c \in {"1", "11", "17"} |->
        IF c = "1" THEN VIDEO ELSE IF c = "11" THEN DYNAMIC_IMAGE ELSE DYNAMIC_TEXT]

USER_CSV_HEADERS == <<"comment_id_str", "comment_type">>

\* A descriptor file as the writers of the repository lay it out: the header
\* row, then one row <<object id, str(kind value)>> per target.
DescriptorFile(targets) ==
    <<USER_CSV_HEADERS>> \o
    [k \in 1..Len(targets) |->
        <<targets[k].oid, CHOOSE c \in DOMAIN CommentType : CommentType[c] = targets[k].type>>]

\* The descriptor rows of a batch: a video the base name fails on, and a dynamic.
BatchTargets == {t \in TargetSet : ~(t.type = VIDEO /\ t.oid > 0)}
\* The directory user/ of a batch: one descriptor file of up to MaxTasks rows.
TaskLists == {<<DescriptorFile(l)>> : l \in UNION {[1..n -> BatchTargets] : n \in 0..MaxTasks}}

(***************************************************************************)
(* The API client.  A call ends either with an exception out of            *)
(* session.get (connection error, retries exhausted) or with a response    *)
(* carrying an HTTP status and, in its body, an application code and data. *)
(***************************************************************************)
Exc == [k |-> "exc"]
NoData == [k |-> "null"]
Resp(status, code, data) == [k |-> "resp", status |-> status, code |-> code, data |-> data]
Data(top, replies) == [k |-> "data", top_replies |-> top, replies |-> replies]
Info(hasTitle) == [k |-> "info", title |-> hasTitle]
Scalar == [k |-> "scalar"]   \* a "data" value that is a number: truthy, not a container

\* get_main_comments, get_reply_comments and get_video_info share this tail:
\* data only for status 200 with code 0, None in every other case.
ApiReturn(final) ==
    IF final.k = "exc" THEN NoData
    ELSE IF final.status = 200
         THEN IF final.code = 0 THEN final.data ELSE NoData
         ELSE NoData

\* Whether the call failed (HTTP error, exhausted retries, application code).
ApiFailed(final) ==
    final.k = "exc" \/ final.status # 200 \/ final.code # 0

C(r) == [rcount |-> r, ok |-> TRUE]
Bad == [rcount |-> 0, ok |-> FALSE]       \* a payload from_api_response raises on
Comments == {C(r) : r \in 0..MaxRcount} \cup {Bad}

PageShapes == {<<c>> : c \in Comments} \cup {<<C(1), C(0)>>, <<C(0), Bad>>}
TopShapes == {<<C(0)>>, <<C(1)>>, <<Bad>>}
ReplyShapes == {<<C(0)>>, <<Bad>>, <<C(0), Bad>>}

ErrorFinals == {Exc, Resp(412, 0, NoData), Resp(200, -352, NoData)}
PageFinals ==
    ErrorFinals \cup {Resp(200, 0, NoData), Resp(200, 0, Data(<<>>, <<>>))}
    \cup {Resp(200, 0, Data(<<>>, s)) : s \in PageShapes}
TopFinals ==
    ErrorFinals \cup {Resp(200, 0, NoData), Resp(200, 0, Data(<<>>, <<>>))}
    \cup {Resp(200, 0, Data(s, <<>>)) : s \in TopShapes}
ReplyFinals ==
    ErrorFinals \cup {Resp(200, 0, NoData), Resp(200, 0, Data(<<>>, <<>>))}
    \cup {Resp(200, 0, Data(<<>>, s)) : s \in ReplyShapes}
InfoFinals ==
    ErrorFinals \cup {Resp(200, 0, NoData), Resp(200, 0, Info(TRUE)), Resp(200, 0, Info(FALSE)),
                      Resp(200, 0, Scalar)}

\* Whether a response carries a non-empty list (the remote serves a bounded
\* number of them in one run).
HasList(final) ==
    /\ final.k = "resp"
    /\ final.data.k = "data"
    /\ (final.data.top_replies # <<>> \/ final.data.replies # <<>>)

\* Python truthiness of the value a get_* call returned ("if not data").
Falsy(v) == v = NoData

(***************************************************************************)
(* Records.                                                                *)
(***************************************************************************)
NoParent == <<>>

\* A from_api_response that leaves parent_rpid at its default.
from_api_response_no_parent(rpid, reply_count, is_top, parent_rpid) ==
    [rpid |-> rpid, reply_count |-> reply_count, is_top |-> is_top,
     parent_rpid |-> <<>>]

\* CommentData.from_api_response: the fields the traversal sets.
from_api_response(rpid, reply_count, is_top, parent_rpid) ==
    [rpid |-> rpid, reply_count |-> reply_count, is_top |-> is_top,
     parent_rpid |-> parent_rpid]

\* CommentData.to_list: the CSV row keeps the comment id and drops
\* reply_count, is_top and parent_rpid.
to_list(c) == <<"row", c.rpid>>

\* A record the traversal built, with the loop that built it ("top", "main" or
\* "sub") and, for a reply, the root id its reply page was requested under.
Made(rec, kind, under) == [rec |-> rec, kind |-> kind, under |-> under]

\* math.ceil(total_count / ps)
total_pages(total_count, ps) ==
    IF total_count % ps = 0 THEN total_count \div ps ELSE (total_count \div ps) + 1

\* _get_file_base_name; info is the title lookup's result.
NeedsLookup(t) == t.type = VIDEO /\ t.oid > 0
file_base_name(t, info) ==
    IF t.type = VIDEO
    THEN IF t.oid <= 0 THEN <<"none", 0>>
         ELSE IF Falsy(info) THEN <<"video", t.oid>>
         ELSE IF info.k = "scalar" THEN <<"none", 0>>
         ELSE IF info.title THEN <<"title", t.oid>>
         ELSE <<"video", t.oid>>
    ELSE <<"dynamic", t.oid>>

BaseNames ==
    {<<"title", t.oid>> : t \in TargetSet} \cup {<<"video", t.oid>> : t \in TargetSet}
    \cup {<<"dynamic", t.oid>> : t \in TargetSet}

(***************************************************************************)
(* State.                                                                  *)
(***************************************************************************)
VARIABLES
    pc,             \* position of the single thread of control
    mode,           \* "batch": Bilibili_crawler.main; "single": a direct crawl_single_target;
                    \* "thread": the same for one dynamic target and one-reply pages;
                    \* "batchcall": a direct crawl_batch_targets
    cfg,            \* disk: config.json
    descriptors,    \* disk: the rows of the descriptor files under user/
    ledger,         \* disk: the lines of the progress file
    files,          \* disk: the all_comments destination of each base name
    apiClient,      \* whether BilibiliCrawler (and its BilibiliApiClient) was created
    sessionClosed,  \* whether close() was called on the shared session
    mainRet,        \* what the entry point returned
    b,              \* the frame of crawl_batch_targets
    s,              \* the frame of crawl_single_target and the traversals under it
    faults,         \* disk faults injected so far
    served,         \* responses with a non-empty list served in this run
    slept,          \* whether _sleep_random ran since the last network request
    netUsed,        \* whether this process run issued a network request
    failed,         \* indexes of the tasks with a failed page fetch of the main sequence
    run,            \* 1: first process run, 2: the run after it
    allDone,        \* whether every listed target was in the ledger when the batch began
    restarted,      \* whether the process was killed and the crawl started again
    crashSnap,      \* the destination's content at the moment of the kill
    f,              \* the frame of one session.get with its Retry policy
    u,              \* the frame of crawl_user_dynamics
    conv            \* the frame of a call of av2bv followed by bv2av

vars == <<pc, mode, cfg, descriptors, ledger, files, apiClient, sessionClosed, mainRet,
          b, s, faults, served, slept, netUsed, failed, run, allDone, restarted, crashSnap, f,
          u, conv>>

NoTarget == [oid |-> 0 - 1, type |-> 0]
NoBase == <<"none", 0>>
NoSnap == [base |-> NoBase, content |-> <<>>]

BatchFrame0 ==
    [tasks |-> <<>>, i |-> 0, success_count |-> 0, ret |-> "none",
     attempts |-> <<>>,     \* history: the task indexes crawl_single_target was called for
     results |-> <<>>,      \* history: what each of those calls returned
     delays |-> 0]          \* history: the inter-target delays paid (line 126)
SingleFrame0 ==
    [cur |-> NoTarget, base |-> NoBase, start |-> 0, end |-> 0, page |-> 0,
     ctx |-> "none", pending |-> <<>>, pidx |-> 0, root |-> <<>>, rcount |-> 0,
     subPage |-> 0, subTotal |-> 0, rootLog |-> <<>>, subLog |-> <<>>, ret |-> "none",
     lookups |-> 0,         \* history: the title lookups issued for this target
     due |-> <<>>,          \* history: the rows handed to write_csv for this target
     made |-> <<>>]         \* the records the last step built, each with where it was built
FetchFrame0 ==
    [api |-> "none", budget |-> 0, j |-> 0, final |-> Exc, left |-> 0, attempts |-> 0,
     last |-> Exc, got |-> Exc, ret |-> NoData, outcome |-> "none",
     inflight |-> 0]        \* requests issued whose response is not complete

ConvFrame0 == [aid |-> <<0, 0, 0>>, bvid |-> <<>>, back |-> <<0, 0, 0>>, valid |-> FALSE]
NoToken == 0
FeedFrame0 ==
    [offset |-> NoToken, has_more |-> FALSE, page_count |-> 0, ret |-> "none",
     log |-> <<>>,          \* history: the feed requests, each with what it was answered
     handed |-> <<>>]       \* history: the rows handed to write_csv

\* The in-memory state of a fresh process.
FreshProcess ==
    /\ apiClient = FALSE
    /\ sessionClosed = FALSE
    /\ mainRet = "none"
    /\ b = BatchFrame0
    /\ s = SingleFrame0
    /\ faults = 0
    /\ served = 0
    /\ slept = FALSE
    /\ netUsed = FALSE
    /\ failed = {}
    /\ allDone = FALSE

Init ==
    /\ pc = "main"
    /\ mode = "batch"
    /\ cfg \in ConfigFiles
    /\ descriptors \in TaskLists
    /\ ledger = <<>>
    /\ files = [n \in BaseNames |-> <<>>]
    /\ FreshProcess
    /\ run = 1
    /\ restarted = FALSE
    /\ crashSnap = NoSnap
    /\ f = FetchFrame0
    /\ u = FeedFrame0
    /\ conv = ConvFrame0

Bool(x) == IF x THEN "True" ELSE "False"

(***************************************************************************)
(* Bilibili_crawler.main                                                   *)
(***************************************************************************)
\* main, lines 24-30: load the configuration; a refusal ends the run.
MainLoadConfig ==
    /\ pc = "main"
    /\ IF load_config(cfg)
       THEN /\ pc' = "create"
            /\ UNCHANGED mainRet
       ELSE /\ pc' = "exit"
            /\ mainRet' = "False"
    /\ UNCHANGED <<mode, cfg, descriptors, ledger, files, apiClient, sessionClosed,
                   b, s, faults, served, slept, netUsed, failed, run, allDone, restarted,
                   crashSnap, f, u, conv>>

\* main, line 33: BilibiliCrawler.__init__ creates the API client and its session.
MainCreateCrawler ==
    /\ pc = "create"
    /\ apiClient' = TRUE
    /\ pc' = "batch"
    /\ UNCHANGED <<mode, cfg, descriptors, ledger, files, sessionClosed, mainRet,
                   b, s, faults, served, slept, netUsed, failed, run, allDone, restarted,
                   crashSnap, f, u, conv>>

\* main, lines 36-43: the entry point returns what the batch returned.
MainReturn ==
    /\ pc = "batch_ret"
    /\ mainRet' = b.ret
    /\ pc' = "exit"
    /\ UNCHANGED <<mode, cfg, descriptors, ledger, files, apiClient, sessionClosed,
                   b, s, faults, served, slept, netUsed, failed, run, allDone, restarted,
                   crashSnap, f, u, conv>>

(***************************************************************************)
(* BilibiliCrawler.crawl_batch_targets                                     *)
(***************************************************************************)
\* lines 145-150: the rows of one file after its header, in order: a row of
\* fewer than two columns is passed over, a row with a known kind code gives a
\* task, and a row whose kind code raises ends the file (line 152), the tasks
\* appended before it being kept.
RECURSIVE tasks_of_rows(_)
tasks_of_rows(rows) ==
    IF rows = <<>> THEN <<>>
    ELSE LET row == Head(rows) IN
         IF Len(row) < 2 THEN tasks_of_rows(Tail(rows))
         ELSE IF row[2] \notin DOMAIN CommentType THEN <<>>
         ELSE <<[oid |-> row[1], type |-> CommentType[row[2]]]>> \o tasks_of_rows(Tail(rows))

\* _load_batch_tasks: the tasks of every file of the directory, in the order
\* of the listing; data[1:] skips the first row of each file.
RECURSIVE load_batch_tasks(_)
load_batch_tasks(csv_files) ==
    IF csv_files = <<>> THEN <<>>
    ELSE (IF Head(csv_files) = <<>> THEN <<>> ELSE tasks_of_rows(Tail(Head(csv_files))))
         \o load_batch_tasks(Tail(csv_files))

InLedger(t, l) == \E k \in 1..Len(l) : l[k] = t

\* lines 97-109: load the tasks; an empty list returns False (and closes).
BatchStart ==
    /\ pc = "batch"
    /\ LET tasks == load_batch_tasks(descriptors) IN
       /\ allDone' = (tasks # <<>> /\ \A k \in 1..Len(tasks) : InLedger(tasks[k], ledger))
       /\ IF tasks = <<>>
          THEN /\ b' = [b EXCEPT !.tasks = tasks, !.ret = "False"]
               /\ sessionClosed' = TRUE
               /\ pc' = "batch_ret"
          ELSE /\ b' = [b EXCEPT !.tasks = tasks, !.i = 1, !.success_count = 0]
               /\ UNCHANGED sessionClosed
               /\ pc' = "loop"
    /\ UNCHANGED <<mode, cfg, descriptors, ledger, files, apiClient, mainRet,
                   s, faults, served, slept, netUsed, failed, run, restarted, crashSnap, f, u, conv>>

\* A result that is content with one success.
batch_result_any(success_count, total_count) == success_count > 0

\* line 129
batch_result(success_count, total_count) == success_count = total_count

\* lines 111-115: the loop head calls crawl_single_target for the next task.
BatchCall ==
    /\ pc = "loop"
    /\ b.i <= Len(b.tasks)
    /\ b' = [b EXCEPT !.attempts = Append(@, b.i)]
    /\ s' = [SingleFrame0 EXCEPT !.cur = b.tasks[b.i], !.start = cfg.start, !.end = cfg.end]
    /\ pc' = "single"
    /\ UNCHANGED <<mode, cfg, descriptors, ledger, files, apiClient, sessionClosed, mainRet,
                   faults, served, slept, netUsed, failed, run, allDone, restarted, crashSnap, f, u, conv>>

\* lines 128-135: after the last task, the result and the closing of the session.
BatchReturn ==
    /\ pc = "loop"
    /\ b.i > Len(b.tasks)
    /\ b' = [b EXCEPT !.ret = Bool(batch_result(b.success_count, Len(b.tasks)))]
    /\ sessionClosed' = TRUE
    /\ pc' = "batch_ret"
    /\ UNCHANGED <<mode, cfg, descriptors, ledger, files, apiClient, mainRet,
                   s, faults, served, slept, netUsed, failed, run, allDone, restarted, crashSnap, f, u, conv>>

\* A tracker whose failed append leaves the progress file empty.
record_completed_task_truncating(l, task, ok) == IF ok THEN Append(l, task) ELSE <<>>

\* ProgressTracker.record_completed_task appends one line; a failing append is
\* caught and logged.
record_completed_task(l, task, ok) == IF ok THEN Append(l, task) ELSE l

\* A loop that leaves at the first target that did not succeed.
next_task_break(i, ret, total_count) == IF ret = "True" THEN i + 1 ELSE total_count + 1

\* The task after task i: the loop goes on whatever the crawl returned.
next_task(i, ret, total_count) == i + 1

\* A loop that pays the inter-target delay only after a success.
inter_target_delay_on_success(ret) == IF ret = "True" THEN 1 ELSE 0

\* line 126: _sleep_random stands after the try statement of the loop body, so
\* it runs once per iteration whatever the attempt gave.
inter_target_delay(ret) == 1

\* lines 115-126: count and record a success, log a failure, pay the delay, advance.
BatchAfter ==
    /\ pc = "single_ret"
    /\ mode \in {"batch", "batchcall"}
    /\ IF s.ret = "True"
       THEN /\ b' = [b EXCEPT !.success_count = @ + 1, !.results = Append(@, s.ret),
                              !.delays = @ + inter_target_delay(s.ret),
                              !.i = next_task(@, s.ret, Len(b.tasks))]
            /\ \E ok \in {TRUE} \cup {w \in {FALSE} : faults < MaxFaults} :
                 /\ ledger' = record_completed_task(ledger, b.tasks[b.i], ok)
                 /\ faults' = IF ok THEN faults ELSE faults + 1
       ELSE /\ b' = [b EXCEPT !.results = Append(@, s.ret),
                              !.delays = @ + inter_target_delay(s.ret),
                              !.i = next_task(@, s.ret, Len(b.tasks))]
            /\ UNCHANGED <<ledger, faults>>
    /\ slept' = (slept \/ inter_target_delay(s.ret) > 0)
    /\ pc' = "loop"
    /\ UNCHANGED <<mode, cfg, descriptors, files, apiClient, sessionClosed, mainRet,
                   s, served, netUsed, failed, run, allDone, restarted, crashSnap, f, u, conv>>

(***************************************************************************)
(* The record sink.                                                        *)
(***************************************************************************)
\* A sink that writes the header whenever one is passed.
write_csv_header_always(content, data, headers, wmode, outcome) ==
    IF outcome = "ok"
    THEN IF wmode = "w"
         THEN (IF headers # <<>> THEN <<headers>> ELSE <<>>) \o data
         ELSE content \o (IF headers # <<>> THEN <<headers>> ELSE <<>>) \o data
    ELSE IF outcome = "torn" /\ wmode = "w" THEN <<>> ELSE content

\* A sink that puts appended rows in front of what the destination holds.
write_csv_prepend(content, data, headers, wmode, outcome) ==
    IF outcome = "ok"
    THEN IF wmode = "w"
         THEN (IF headers # <<>> THEN <<headers>> ELSE <<>>) \o data
         ELSE data \o content
    ELSE IF outcome = "torn" /\ wmode = "w" THEN <<>> ELSE content

\* A sink that keeps appended rows in memory instead of writing them.
write_csv_buffered(content, data, headers, wmode, outcome) ==
    IF outcome = "ok" /\ wmode = "w"
    THEN (IF headers # <<>> THEN <<headers>> ELSE <<>>) \o data
    ELSE IF outcome = "torn" /\ wmode = "w" THEN <<>> ELSE content

\* A sink that puts appended rows right after the first row of the destination.
write_csv_after_first(content, data, headers, wmode, outcome) ==
    IF outcome = "ok"
    THEN IF wmode = "w"
         THEN (IF headers # <<>> THEN <<headers>> ELSE <<>>) \o data
         ELSE IF content = <<>> THEN data
              ELSE <<Head(content)>> \o data \o Tail(content)
    ELSE IF outcome = "torn" /\ wmode = "w" THEN <<>> ELSE content

\* write_csv: mode "w" truncates and writes the header (when given) and the
\* data; mode "a" appends the data.  A failing call is caught and reported as
\* False; in mode "w" the failure may come after the truncation ("torn").
write_csv(content, data, headers, wmode, outcome) ==
    IF outcome = "ok"
    THEN IF wmode = "w"
         THEN (IF headers # <<>> THEN <<headers>> ELSE <<>>) \o data
         ELSE content \o data
    ELSE IF outcome = "torn" /\ wmode = "w" THEN <<>> ELSE content

WriteOutcomes(wmode) ==
    {"ok"} \cup (IF faults < MaxFaults
                 THEN (IF wmode = "w" THEN {"fail", "torn"} ELSE {"fail"})
                 ELSE {})

\* The fault patterns the environment may apply to n consecutive appends.
FaultMasks(n) ==
    {m \in [1..n -> BOOLEAN] : Cardinality({k \in 1..n : ~m[k]}) <= MaxFaults - faults}
Failures(m) == Cardinality({k \in DOMAIN m : ~m[k]})

(***************************************************************************)
(* BilibiliCrawler.crawl_single_target                                     *)
(***************************************************************************)
\* A session whose get gives the response back before it is complete.
outstanding_after_return_kept(n) == n

\* session.get is a blocking call without stream=True (api_client.py lines
\* 78-83, 121-126, 166-171): when it returns, its request is no longer
\* outstanding.
outstanding_after_return(n) == n - 1

\* The call frame after session.get has returned to the get_* method.
returned(fr) ==
    IF fr.api = "none" THEN fr
    ELSE [fr EXCEPT !.api = "none", !.inflight = outstanding_after_return(@)]

Serving(finals) ==
    IF served < (IF mode = "batch" THEN MaxServedBatch
                 ELSE IF mode = "thread" THEN MaxServedThread ELSE MaxServed)
    THEN finals
    ELSE {x \in finals : ~HasList(x)}

\* One entry of the log of root-comment page requests: which loop asked, the
\* page, what the fetch gave, how many comments the list holds and whether one
\* of them makes from_api_response raise.
LogEntry(src, page, res, list) ==
    [src |-> src, page |-> page, res |-> res, n |-> Len(list),
     bad |-> \E k \in 1..Len(list) : ~list[k].ok]

PageRes(final, list) ==
    IF ApiFailed(final) THEN "failed"
    ELSE IF Falsy(ApiReturn(final)) THEN "nodata"
    ELSE IF list = <<>> THEN "empty"
    ELSE "page"

\* lines 52-65 and 157-176: the base name (with the title lookup of a video
\* target); no base name returns False through the finally clause.
SingleStart ==
    /\ pc = "single"
    /\ \E final \in (IF NeedsLookup(s.cur) THEN InfoFinals ELSE {Exc}) :
         LET name == file_base_name(s.cur, ApiReturn(final)) IN
         /\ IF NeedsLookup(s.cur)
            THEN netUsed' = TRUE /\ slept' = FALSE
            ELSE UNCHANGED <<netUsed, slept>>
         /\ IF name = NoBase
            THEN /\ s' = [s EXCEPT !.ret = "False",
                                   !.lookups = IF NeedsLookup(s.cur) THEN @ + 1 ELSE @]
                 /\ sessionClosed' = TRUE
                 /\ pc' = "single_ret"
            ELSE /\ s' = [s EXCEPT !.base = name,
                                   !.lookups = IF NeedsLookup(s.cur) THEN @ + 1 ELSE @]
                 /\ UNCHANGED sessionClosed
                 /\ pc' = "init"
    /\ UNCHANGED <<mode, cfg, descriptors, ledger, files, apiClient, mainRet,
                   b, faults, served, failed, run, allDone, restarted, crashSnap, u, conv>>
    /\ f' = returned(f)

\* _init_csv_files: write_csv(path, [], CSV_HEADERS, mode='w').
InitCsvFiles ==
    /\ pc = "init"
    /\ \E outcome \in WriteOutcomes("w") :
         /\ files' = [files EXCEPT ![s.base] = write_csv(@, <<>>, CSV_HEADERS, "w", outcome)]
         /\ faults' = IF outcome = "ok" THEN faults ELSE faults + 1
    /\ pc' = "top"
    /\ UNCHANGED <<mode, cfg, descriptors, ledger, apiClient, sessionClosed, mainRet,
                   b, s, served, slept, netUsed, failed, run, allDone, restarted, crashSnap, f, u, conv>>

\* _crawl_top_comments, lines 186-196: one fetch of page 1; without data or
\* without pinned comments the traversal goes on to the main sequence.
CrawlTopFetch ==
    /\ pc = "top"
    /\ \E final \in Serving(TopFinals) :
         LET data == ApiReturn(final)
             top == IF Falsy(data) THEN <<>> ELSE data.top_replies
         IN
         /\ served' = IF HasList(final) THEN served + 1 ELSE served
         /\ IF top = <<>>
            THEN /\ s' = [s EXCEPT !.rootLog = Append(@, LogEntry("top", 1,
                                                                  PageRes(final, top), top)),
                                   !.page = s.start]
                 /\ pc' = "mainloop"
            ELSE /\ s' = [s EXCEPT !.rootLog = Append(@, LogEntry("top", 1, "page", top)),
                                   !.ctx = "top", !.pending = top, !.pidx = 0]
                 /\ pc' = "item"
    /\ netUsed' = TRUE
    /\ slept' = FALSE
    /\ UNCHANGED <<mode, cfg, descriptors, ledger, files, apiClient, sessionClosed, mainRet,
                   b, faults, failed, run, allDone, restarted, crashSnap, u, conv>>
    /\ f' = returned(f)

\* A main sequence that goes on past a page whose fetch failed.
main_stops_not_on_failure(res) == res \in {"nodata", "empty"}

\* A main sequence that goes on past a page without comments.
main_stops_no_data_only(res) == res \in {"failed", "nodata"}

\* Whether the main sequence stops on what a page fetch gave (lines 229-236).
main_stops(res) == res \in {"failed", "nodata", "empty"}

\* _crawl_main_comments, lines 225-236: fetch the next page of the range; no
\* data or no comments ends the sequence, and the target returns True.
CrawlMainFetch ==
    /\ pc = "mainloop"
    /\ s.page <= s.end
    /\ \E final \in Serving(PageFinals) :
         LET data == ApiReturn(final)
             replies == IF Falsy(data) THEN <<>> ELSE data.replies
             res == PageRes(final, replies)
         IN
         /\ failed' = IF ApiFailed(final) /\ mode \in {"batch", "batchcall"} THEN failed \cup {b.i} ELSE failed
         /\ served' = IF HasList(final) THEN served + 1 ELSE served
         /\ IF main_stops(res)
            THEN /\ s' = [s EXCEPT !.rootLog = Append(@, LogEntry("main", s.page, res,
                                                                  replies)),
                                   !.ret = "True"]
                 /\ sessionClosed' = TRUE
                 /\ pc' = "single_ret"
            ELSE /\ s' = [s EXCEPT !.rootLog = Append(@, LogEntry("main", s.page, res,
                                                                  replies)),
                                   !.ctx = "main", !.pending = replies, !.pidx = 0]
                 /\ UNCHANGED sessionClosed
                 /\ pc' = "item"
    /\ netUsed' = TRUE
    /\ slept' = FALSE
    /\ UNCHANGED <<mode, cfg, descriptors, ledger, files, apiClient, mainRet,
                   b, faults, run, allDone, restarted, crashSnap, u, conv>>
    /\ f' = returned(f)

\* lines 225 and 266, 77-88: past end_page the sequence returns True.
CrawlMainExhausted ==
    /\ pc = "mainloop"
    /\ s.page > s.end
    /\ s' = [s EXCEPT !.ret = "True"]
    /\ sessionClosed' = TRUE
    /\ pc' = "single_ret"
    /\ UNCHANGED <<mode, cfg, descriptors, ledger, files, apiClient, mainRet,
                   b, faults, served, slept, netUsed, failed, run, allDone, restarted, crashSnap, f, u, conv>>

\* A traversal that is entered only for more than one declared reply.
has_replies_over_one(reply_count) == reply_count > 1

\* "if reply_count > 0" (lines 211 and 251)
has_replies(reply_count) == reply_count > 0

\* A loop that handles the first comment of a response only.
remaining_none(pending) == <<>>

\* "for reply in replies": the comments still to handle after the current one.
remaining(pending) == Tail(pending)

\* A caller that leaves the rest of the response when write_csv reports False.
after_write_stopping(pending, outcome) == IF outcome = "ok" THEN pending ELSE <<>>

\* _write_comment_to_files, lines 319-331: what write_csv returns is not looked
\* at; the comments still to handle are the same after a failed append.
after_write(pending, outcome) == pending

\* A handler that takes the page that raised again.
page_after_exception_retry(page) == page

\* lines 262-264: "continue" after an exception under a page: the for loop
\* takes the next page of the range.
page_after_exception(page) == page + 1

\* lines 198-215 and 239-255: one comment of the current response: build the
\* record, append it, and traverse its replies when it declares any.  A payload
\* that raises ends the pinned set (line 217) or skips to the next page
\* (lines 262-264).
ProcessComment ==
    /\ pc = "item"
    /\ s.pending # <<>>
    /\ LET reply == Head(s.pending)
           n == s.pidx + 1
           rpid == <<(IF s.ctx = "top" THEN 0 ELSE s.page), n>>
           comment == from_api_response(rpid, reply.rcount, s.ctx = "top", NoParent)
       IN
       IF ~reply.ok
       THEN /\ s' = [s EXCEPT !.pending = <<>>, !.pidx = 0, !.ctx = "none", !.made = <<>>,
                              !.page = IF s.ctx = "top" THEN s.start
                                       ELSE page_after_exception(@)]
            /\ pc' = "mainloop"
            /\ UNCHANGED <<files, faults>>
       ELSE \E outcome \in WriteOutcomes("a") :
              /\ files' = [files EXCEPT ![s.base] =
                              write_csv(@, <<to_list(comment)>>, <<>>, "a", outcome)]
              /\ faults' = IF outcome = "ok" THEN faults ELSE faults + 1
              /\ IF has_replies(comment.reply_count)
                 THEN /\ s' = [s EXCEPT !.pending = after_write(remaining(@), outcome),
                                        !.pidx = n,
                                        !.root = comment.rpid,
                                        !.due = Append(@, to_list(comment)),
                                        !.made = <<Made(comment, s.ctx, NoParent)>>,
                                        !.rcount = comment.reply_count,
                                        !.subTotal = total_pages(comment.reply_count, cfg.ps),
                                        !.subPage = 1, !.subLog = <<>>]
                      /\ pc' = "sub"
                 ELSE /\ s' = [s EXCEPT !.pending = after_write(remaining(@), outcome),
                                        !.pidx = n,
                                        !.due = Append(@, to_list(comment)),
                                        !.made = <<Made(comment, s.ctx, NoParent)>>]
                      /\ pc' = "item"
    /\ UNCHANGED <<mode, cfg, descriptors, ledger, apiClient, sessionClosed, mainRet,
                   b, served, slept, netUsed, failed, run, allDone, restarted, crashSnap, f, u, conv>>

\* After the last comment: the pinned set returns to crawl_single_target, a
\* page pays the delay and advances (lines 257-260).
CommentsDone ==
    /\ pc = "item"
    /\ s.pending = <<>>
    /\ IF s.ctx = "top"
       THEN /\ s' = [s EXCEPT !.page = s.start, !.pidx = 0, !.ctx = "none", !.made = <<>>]
            /\ UNCHANGED slept
       ELSE /\ s' = [s EXCEPT !.page = @ + 1, !.pidx = 0, !.ctx = "none", !.made = <<>>]
            /\ slept' = TRUE
    /\ pc' = "mainloop"
    /\ UNCHANGED <<mode, cfg, descriptors, ledger, files, apiClient, sessionClosed, mainRet,
                   b, faults, served, netUsed, failed, run, allDone, restarted, crashSnap, f, u, conv>>

(***************************************************************************)
(* BilibiliCrawler._crawl_sub_comments                                     *)
(***************************************************************************)
\* A reply traversal that leaves at the first page that gives nothing.
sub_next_break(page, total, res) ==
    IF res \in {"failed", "nodata", "empty"} THEN total + 1 ELSE page + 1

\* The page after `page`: every outcome of lines 288-314 goes on to the next.
sub_next(page, total, res) == page + 1

\* A reply traversal that lets the exception of a reply page out to its
\* caller, whose handler leaves the rest of the response.
pending_after_reply_page_uncaught(pending, raised) == IF raised THEN <<>> ELSE pending

\* lines 312-317: an exception raised under a reply page is caught inside
\* _crawl_sub_comments; the comments its caller still has to handle are kept.
pending_after_reply_page(pending, raised) == pending

FirstBad(list) ==
    IF \E j \in 1..Len(list) : ~list[j].ok
    THEN CHOOSE j \in 1..Len(list) : ~list[j].ok /\ \A k \in 1..(j - 1) : list[k].ok
    ELSE Len(list) + 1

\* lines 282-314: one reply page: fetch, skip when it gives nothing, append
\* each reply until one raises, pay the delay when none did.
CrawlSubFetch ==
    /\ pc = "sub"
    /\ s.subPage <= s.subTotal
    /\ \E final \in Serving(ReplyFinals) :
         LET data == ApiReturn(final)
             replies == IF Falsy(data) THEN <<>> ELSE data.replies
             res == PageRes(final, replies)
             upto == FirstBad(replies) - 1
             raised == upto < Len(replies)
             rec(j) == from_api_response(s.root \o <<s.subPage, j>>, 0, FALSE, s.root)
             row(j) == to_list(rec(j))
         IN
         \E m \in FaultMasks(upto) :
           LET W[j \in 0..upto] ==
                   IF j = 0 THEN files[s.base]
                   ELSE write_csv(W[j - 1], <<row(j)>>, <<>>, "a",
                                  IF m[j] THEN "ok" ELSE "fail")
           IN
           /\ files' = [files EXCEPT ![s.base] = W[upto]]
           /\ faults' = faults + Failures(m)
           /\ served' = IF HasList(final) THEN served + 1 ELSE served
           /\ slept' = (res = "page" /\ ~raised)
           /\ s' = [s EXCEPT !.subLog = Append(@, s.subPage),
                             !.due = @ \o [j \in 1..upto |-> row(j)],
                             !.made = [j \in 1..upto |-> Made(rec(j), "sub", s.root)],
                             !.pending = pending_after_reply_page(@, raised),
                             !.subPage = sub_next(s.subPage, s.subTotal,
                                                  IF raised THEN "raise" ELSE res)]
    /\ netUsed' = TRUE
    /\ pc' = "sub"
    /\ UNCHANGED <<mode, cfg, descriptors, ledger, apiClient, sessionClosed, mainRet,
                   b, failed, run, allDone, restarted, crashSnap, u, conv>>
    /\ f' = returned(f)

\* line 282: past the last page the traversal returns to its caller's loop.
CrawlSubReturn ==
    /\ pc = "sub"
    /\ s.subPage > s.subTotal
    /\ s' = [s EXCEPT !.root = <<>>, !.rcount = 0, !.subPage = 0, !.subTotal = 0,
                      !.subLog = <<>>, !.made = <<>>]
    /\ pc' = "item"
    /\ UNCHANGED <<mode, cfg, descriptors, ledger, files, apiClient, sessionClosed, mainRet,
                   b, faults, served, slept, netUsed, failed, run, allDone, restarted,
                   crashSnap, f, u, conv>>

(***************************************************************************)
(* Specification of a batch run.                                           *)
(***************************************************************************)
Crawl ==
    \/ SingleStart
    \/ InitCsvFiles
    \/ CrawlTopFetch
    \/ CrawlMainFetch
    \/ CrawlMainExhausted
    \/ ProcessComment
    \/ CommentsDone
    \/ CrawlSubFetch
    \/ CrawlSubReturn

Next ==
    \/ MainLoadConfig
    \/ MainCreateCrawler
    \/ BatchStart
    \/ BatchCall
    \/ BatchAfter
    \/ BatchReturn
    \/ MainReturn
    \/ Crawl

Spec == Init /\ [][Next]_vars

(***************************************************************************)
(* Specification of one direct call of crawl_single_target on a crawler    *)
(* built from a configuration that load_config accepted.                   *)
(***************************************************************************)
SingleConfigs ==
    {c \in [file : {"ok"}, cookies_str : {"SESSDATA=abc"}, bili_jct : {"abc123"},
            ps : 1..MaxPs, start : 1..MaxEnd, end : 1..MaxEnd] : load_config(c)}

InitSingle ==
    /\ pc = "single"
    /\ mode = "single"
    /\ cfg \in SingleConfigs
    /\ descriptors = <<>>
    /\ ledger = <<>>
    /\ files = [n \in BaseNames |-> <<>>]
    /\ apiClient = TRUE
    /\ sessionClosed = FALSE
    /\ mainRet = "none"
    /\ b = BatchFrame0
    /\ \E t \in TargetSet :
         s = [SingleFrame0 EXCEPT !.cur = t, !.start = cfg.start, !.end = cfg.end]
    /\ faults = 0
    /\ served = 0
    /\ slept = FALSE
    /\ netUsed = FALSE
    /\ failed = {}
    /\ allDone = FALSE
    /\ run = 1
    /\ restarted = FALSE
    /\ crashSnap = NoSnap
    /\ f = FetchFrame0
    /\ u = FeedFrame0
    /\ conv = ConvFrame0

\* The caller takes the result of crawl_single_target.
SingleExit ==
    /\ pc = "single_ret"
    /\ mode \in {"single", "thread"}
    /\ mainRet' = s.ret
    /\ pc' = "exit"
    /\ UNCHANGED <<mode, cfg, descriptors, ledger, files, apiClient, sessionClosed,
                   b, s, faults, served, slept, netUsed, failed, run, allDone, restarted,
                   crashSnap, f, u, conv>>

NextSingle == Crawl \/ SingleExit

SpecSingle == InitSingle /\ [][NextSingle]_vars

\* The same call for a range within pages 1 to 2, when every step of the one
\* thread of control is taken: each network call returns and the interpreter
\* goes on to the next statement.
InitSingleRuns == InitSingle /\ cfg.end <= 2

SpecSingleRuns == InitSingleRuns /\ [][NextSingle]_vars /\ WF_vars(NextSingle)

(***************************************************************************)
(* Specification of one call of _load_batch_tasks on a directory user/ of  *)
(* at most two descriptor files of arbitrary rows.                         *)
(***************************************************************************)
\* The rows a descriptor file may hold: known kinds, a number that is no
\* kind, a kind cell that is no number, and a row of one column.
DescriptorRows == {<<1, "1">>, <<2, "11">>, <<2, "17">>, <<2, "99">>, <<2, "x">>, <<2>>}
DescriptorFiles ==
    {<<>>} \cup
    {<<USER_CSV_HEADERS>> \o rows :
        rows \in UNION {[1..n -> DescriptorRows] : n \in 0..MaxTasks}}

InitLoad ==
    /\ pc = "load"
    /\ mode = "load"
    /\ cfg = CHOOSE c \in SingleConfigs : TRUE
    /\ descriptors \in UNION {[1..n -> DescriptorFiles] : n \in 0..2}
    /\ ledger = <<>>
    /\ files = [n \in BaseNames |-> <<>>]
    /\ apiClient = TRUE
    /\ sessionClosed = FALSE
    /\ mainRet = "none"
    /\ b = BatchFrame0
    /\ s = SingleFrame0
    /\ faults = 0
    /\ served = 0
    /\ slept = FALSE
    /\ netUsed = FALSE
    /\ failed = {}
    /\ allDone = FALSE
    /\ run = 1
    /\ restarted = FALSE
    /\ crashSnap = NoSnap
    /\ f = FetchFrame0
    /\ u = FeedFrame0
    /\ conv = ConvFrame0

\* line 100: tasks = self._load_batch_tasks()
LoadTasks ==
    /\ pc = "load"
    /\ mode = "load"
    /\ b' = [b EXCEPT !.tasks = load_batch_tasks(descriptors)]
    /\ pc' = "loaded"
    /\ UNCHANGED <<mode, cfg, descriptors, ledger, files, apiClient, sessionClosed, mainRet,
                   s, faults, served, slept, netUsed, failed, run, allDone, restarted,
                   crashSnap, f, u, conv>>

SpecLoad == InitLoad /\ [][LoadTasks]_vars

(***************************************************************************)
(* Specification of one direct call of crawl_single_target with explicit   *)
(* start_page and end_page arguments (what simple_crawler.main passes from *)
(* 'down' and 'up'), on a crawler built from an accepted configuration.    *)
(***************************************************************************)
\* What a caller may pass for a page argument: nothing (None) or an integer.
PageArgs == {[given |-> FALSE, v |-> 0]} \cup {[given |-> TRUE, v |-> n] : n \in -1..2}

\* lines 71-72: "start_page or config.start_page": None and 0 give the
\* configured value, every other integer is taken as it is.
arg_or_config(arg, configured) ==
    IF arg.given /\ arg.v # 0 THEN arg.v ELSE configured

InitArgs ==
    /\ pc = "single"
    /\ mode = "single"
    /\ cfg \in {c \in SingleConfigs : c.ps = 1}
    /\ descriptors = <<>>
    /\ ledger = <<>>
    /\ files = [n \in BaseNames |-> <<>>]
    /\ apiClient = TRUE
    /\ sessionClosed = FALSE
    /\ mainRet = "none"
    /\ b = BatchFrame0
    /\ \E start_page, end_page \in PageArgs :
         s = [SingleFrame0 EXCEPT !.cur = [oid |-> 2, type |-> DYNAMIC_IMAGE],
                                  !.start = arg_or_config(start_page, cfg.start),
                                  !.end = arg_or_config(end_page, cfg.end)]
    /\ faults = 0
    /\ served = 0
    /\ slept = FALSE
    /\ netUsed = FALSE
    /\ failed = {}
    /\ allDone = FALSE
    /\ run = 1
    /\ restarted = FALSE
    /\ crashSnap = NoSnap
    /\ f = FetchFrame0
    /\ u = FeedFrame0
    /\ conv = ConvFrame0

SpecArgs == InitArgs /\ [][NextSingle]_vars

(***************************************************************************)
(* simple_crawler.main: the single-target command.  config.json carries,   *)
(* besides the crawl settings, the keys 'oid', 'type', 'down' and 'up';    *)
(* `keys` is the set of those present and `type` the text of the kind.     *)
(***************************************************************************)
SimpleConfigFiles ==
    [file : {"ok", "missing"}, cookies_str : {"", "SESSDATA=abc"}, bili_jct : {"abc123"},
     ps : {1}, start : {1}, end : {1},
     keys : SUBSET {"oid", "type", "down", "up"}, type : {"11", "99"}]

\* lines 51-56: the keys of the dictionary `config` built from the settings.
simple_config_keys == {"oid", "comment_type", "start_page", "end_page"}

InitSimple ==
    /\ pc = "simple"
    /\ mode = "simple"
    /\ cfg \in SimpleConfigFiles
    /\ descriptors = <<>>
    /\ ledger = <<>>
    /\ files = [n \in BaseNames |-> <<>>]
    /\ FreshProcess
    /\ run = 1
    /\ restarted = FALSE
    /\ crashSnap = NoSnap
    /\ f = FetchFrame0
    /\ u = FeedFrame0
    /\ conv = ConvFrame0

\* main, lines 28-81: load the configuration (31), require 'oid' and 'type'
\* (39-48), build `config` (51-56, CommentType(int(...)) raising ValueError for
\* an unknown kind), log the target (58, reading config['comment_type.name']),
\* then create the crawler and call crawl_single_target (61-64).  Every
\* exception is caught (73-81) and gives False.
SimpleMain ==
    /\ pc = "simple"
    /\ IF /\ load_config(cfg)
          /\ {"oid", "type"} \subseteq cfg.keys
          /\ cfg.type \in DOMAIN CommentType
          /\ {"oid", "comment_type.name", "start_page", "end_page"} \subseteq simple_config_keys
       THEN /\ apiClient' = TRUE
            /\ s' = [SingleFrame0 EXCEPT
                        !.cur = [oid |-> 2, type |-> CommentType[cfg.type]],
                        !.start = arg_or_config([given |-> TRUE, v |-> 1], cfg.start),
                        !.end = arg_or_config([given |-> TRUE, v |-> 2], cfg.end)]
            /\ pc' = "single"
            /\ UNCHANGED mainRet
       ELSE /\ mainRet' = "False"
            /\ pc' = "exit"
            /\ UNCHANGED <<apiClient, s>>
    /\ UNCHANGED <<mode, cfg, descriptors, ledger, files, sessionClosed, b, faults, served,
                   slept, netUsed, failed, run, allDone, restarted, crashSnap, f, u, conv>>

SpecSimple == InitSimple /\ [][SimpleMain]_vars

(***************************************************************************)
(* Specification of one direct call of crawl_single_target for the dynamic *)
(* target, pages 1 to 2 with one reply per reply page, in which the remote *)
(* serves enough lists for a root comment with two reply pages to be       *)
(* followed by another root comment.                                       *)
(***************************************************************************)
ThreadConfigs == {c \in SingleConfigs : c.ps = 1 /\ c.start = 1 /\ c.end = 2}

InitThread ==
    /\ pc = "single"
    /\ mode = "thread"
    /\ cfg \in ThreadConfigs
    /\ descriptors = <<>>
    /\ ledger = <<>>
    /\ files = [n \in BaseNames |-> <<>>]
    /\ apiClient = TRUE
    /\ sessionClosed = FALSE
    /\ mainRet = "none"
    /\ b = BatchFrame0
    /\ s = [SingleFrame0 EXCEPT !.cur = [oid |-> 2, type |-> DYNAMIC_IMAGE],
                                !.start = cfg.start, !.end = cfg.end]
    /\ faults = 0
    /\ served = 0
    /\ slept = FALSE
    /\ netUsed = FALSE
    /\ failed = {}
    /\ allDone = FALSE
    /\ run = 1
    /\ restarted = FALSE
    /\ crashSnap = NoSnap
    /\ f = FetchFrame0
    /\ u = FeedFrame0
    /\ conv = ConvFrame0

SpecThread == InitThread /\ [][NextSingle]_vars

(***************************************************************************)
(* Specification of one direct call of crawl_batch_targets on a crawler    *)
(* built from a configuration that load_config accepted.                   *)
(***************************************************************************)
BatchCallConfigs == {c \in SingleConfigs : c.ps = 1 /\ c.start = 1}

\* The descriptor lists of the call: at most two rows.
BatchCallLists == {l \in TaskLists : Len(load_batch_tasks(l)) <= 2}

InitBatchCall ==
    /\ pc = "batch"
    /\ mode = "batchcall"
    /\ cfg \in BatchCallConfigs
    /\ descriptors \in BatchCallLists
    /\ ledger = <<>>
    /\ files = [n \in BaseNames |-> <<>>]
    /\ apiClient = TRUE
    /\ sessionClosed = FALSE
    /\ mainRet = "none"
    /\ b = BatchFrame0
    /\ s = SingleFrame0
    /\ faults = 0
    /\ served = 0
    /\ slept = FALSE
    /\ netUsed = FALSE
    /\ failed = {}
    /\ allDone = FALSE
    /\ run = 1
    /\ restarted = FALSE
    /\ crashSnap = NoSnap
    /\ f = FetchFrame0
    /\ u = FeedFrame0
    /\ conv = ConvFrame0

\* The caller takes the result of crawl_batch_targets.
BatchExit ==
    /\ pc = "batch_ret"
    /\ mode = "batchcall"
    /\ mainRet' = b.ret
    /\ pc' = "exit"
    /\ UNCHANGED <<mode, cfg, descriptors, ledger, files, apiClient, sessionClosed,
                   b, s, faults, served, slept, netUsed, failed, run, allDone, restarted,
                   crashSnap, f, u, conv>>

NextBatchCall ==
    \/ BatchStart
    \/ BatchCall
    \/ BatchAfter
    \/ BatchReturn
    \/ BatchExit
    \/ Crawl

SpecBatchCall == InitBatchCall /\ [][NextBatchCall]_vars

(***************************************************************************)
(* One API call on the retrying session: session.get under                 *)
(* Retry(total = max_retries, status_forcelist = [500, 502, 503, 504]),    *)
(* then the tail of get_main_comments / get_reply_comments.  The remote    *)
(* answers the first j attempts with a transient failure and every later   *)
(* attempt with the response `final`.                                      *)
(***************************************************************************)
STATUS_FORCELIST == {500, 502, 503, 504}
\* Retry is built without respect_retry_after_header, which it then takes as
\* True: an answer of one of these statuses that carries a Retry-After header
\* is retried while retries remain.
RETRY_AFTER_STATUS_CODES == {413, 429, 503}

Conn == [k |-> "conn"]                      \* a connection error or a timeout
\* An answer as the adapter sees it: the response and whether it carries Retry-After.
Raw(status, code, data, retry_after) ==
    [k |-> "resp", status |-> status, code |-> code, data |-> data,
     retry_after |-> retry_after]
TransientRaws ==
    {Conn} \cup {Raw(st, 0, NoData, FALSE) : st \in STATUS_FORCELIST}
    \cup {Raw(503, 0, NoData, TRUE)}
FinalRaws ==
    {Raw(404, 0, NoData, FALSE), Raw(412, 0, NoData, FALSE),
     Raw(429, 0, NoData, FALSE), Raw(429, 0, NoData, TRUE),
     Raw(200, 0 - 352, NoData, FALSE), Raw(200, 0, NoData, FALSE),
     Raw(200, 0, Data(<<>>, <<>>), FALSE), Raw(200, 0, Data(<<>>, <<C(0)>>), FALSE)}

\* The policy of the session for a GET: a connection error or a timeout, a
\* status of the forcelist, or, while retries remain, a status of
\* RETRY_AFTER_STATUS_CODES that carries Retry-After.
is_retry(raw, left) ==
    \/ raw.k = "conn"
    \/ /\ raw.k = "resp"
       /\ \/ raw.status \in STATUS_FORCELIST
          \/ (left > 0 /\ raw.retry_after /\ raw.status \in RETRY_AFTER_STATUS_CODES)

\* A policy that gives up one retry early.
is_exhausted_early(left) == left <= 1

\* Retry.increment raises once the remaining total would drop below zero.
is_exhausted(left) == left = 0

\* The branch of lines 128-139 the call ends in.
ApiOutcome(got) ==
    IF got.k = "exc" THEN "exception"
    ELSE IF got.status # 200 THEN "http_error"
    ELSE IF got.code # 0 THEN "app_error"
    ELSE "ok"

InitFetch ==
    /\ pc = "call"
    /\ mode = "fetch"
    /\ cfg = CHOOSE c \in SingleConfigs : TRUE
    /\ descriptors = <<>>
    /\ ledger = <<>>
    /\ files = [n \in BaseNames |-> <<>>]
    /\ apiClient = TRUE
    /\ sessionClosed = FALSE
    /\ mainRet = "none"
    /\ b = BatchFrame0
    /\ s = SingleFrame0
    /\ faults = 0
    /\ served = 0
    /\ slept = FALSE
    /\ netUsed = FALSE
    /\ failed = {}
    /\ allDone = FALSE
    /\ run = 1
    /\ restarted = FALSE
    /\ crashSnap = NoSnap
    /\ u = FeedFrame0
    /\ conv = ConvFrame0
    /\ \E api \in {"main", "reply"}, budget \in 0..MaxBudget, j \in 0..(MaxBudget + 1),
          final \in FinalRaws :
         f = [FetchFrame0 EXCEPT !.api = api, !.budget = budget, !.j = j, !.final = final,
                                 !.left = budget]

\* One attempt of session.get: a retryable failure is retried while the
\* budget lasts and raises when it is exhausted; anything else is returned.
SessionAttempt ==
    /\ pc = "call"
    /\ \E raw \in (IF f.attempts < f.j THEN TransientRaws ELSE {f.final}) :
         IF is_retry(raw, f.left)
         THEN IF is_exhausted(f.left)
              THEN /\ f' = [f EXCEPT !.attempts = @ + 1, !.last = raw, !.got = Exc]
                   /\ pc' = "tail"
              ELSE /\ f' = [f EXCEPT !.attempts = @ + 1, !.last = raw, !.left = @ - 1]
                   /\ pc' = "call"
         ELSE /\ f' = [f EXCEPT !.attempts = @ + 1, !.last = raw, !.got = raw]
              /\ pc' = "tail"
    /\ netUsed' = TRUE
    /\ UNCHANGED <<mode, cfg, descriptors, ledger, files, apiClient, sessionClosed, mainRet,
                   b, s, faults, served, slept, failed, run, allDone, restarted, crashSnap, u, conv>>

\* lines 128-141 / 173-186: data for status 200 with code 0, None otherwise.
ApiTail ==
    /\ pc = "tail"
    /\ f' = [f EXCEPT !.ret = ApiReturn(f.got), !.outcome = ApiOutcome(f.got)]
    /\ pc' = "fetched"
    /\ UNCHANGED <<mode, cfg, descriptors, ledger, files, apiClient, sessionClosed, mainRet,
                   b, s, faults, served, slept, netUsed, failed, run, allDone, restarted,
                   crashSnap, u, conv>>

NextFetch == SessionAttempt \/ ApiTail

SpecFetch == InitFetch /\ [][NextFetch]_vars

(***************************************************************************)
(* A second process run of the batch over the same disk: the descriptor    *)
(* files, the ledger and the destinations are what the first run left.     *)
(***************************************************************************)
Rerun ==
    /\ pc = "exit"
    /\ mode = "batch"
    /\ run = 1
    /\ run' = 2
    /\ pc' = "main"
    /\ apiClient' = FALSE
    /\ sessionClosed' = FALSE
    /\ mainRet' = "none"
    /\ b' = BatchFrame0
    /\ s' = SingleFrame0
    /\ faults' = 0
    /\ served' = 0
    /\ slept' = FALSE
    /\ netUsed' = FALSE
    /\ failed' = {}
    /\ allDone' = FALSE
    /\ UNCHANGED <<mode, cfg, descriptors, ledger, files, restarted, crashSnap, f, u, conv>>

NextRerun == Next \/ Rerun

SpecRerun == Init /\ [][NextRerun]_vars

(***************************************************************************)
(* The process is killed during a direct crawl_single_target, and the same *)
(* crawl is started again in a new process over the same disk.             *)
(***************************************************************************)
Kill ==
    /\ pc \in {"top", "mainloop", "item", "sub"}
    /\ ~restarted
    /\ crashSnap' = [base |-> s.base, content |-> files[s.base]]
    /\ pc' = "killed"
    \* the memory of the process is gone; the arguments of the call are kept
    \* for the new process
    /\ s' = [SingleFrame0 EXCEPT !.cur = s.cur, !.start = s.start, !.end = s.end]
    /\ sessionClosed' = FALSE
    /\ slept' = FALSE
    /\ netUsed' = FALSE
    \* the budgets of the environment span the kill
    /\ UNCHANGED <<mode, cfg, descriptors, ledger, files, apiClient, mainRet, b, faults,
                   served, failed, run, allDone, restarted, f, u, conv>>

Restart ==
    /\ pc = "killed"
    /\ restarted' = TRUE
    /\ run' = 2
    /\ pc' = "single"
    /\ UNCHANGED <<mode, cfg, descriptors, ledger, files, apiClient, sessionClosed, mainRet,
                   b, s, faults, served, slept, netUsed, failed, allDone, crashSnap, f, u, conv>>

NextCrash == NextSingle \/ Kill \/ Restart

SpecCrash == InitSingle /\ [][NextCrash]_vars

(***************************************************************************)
(* The record sink on its own: write_csv called on one destination, first  *)
(* in mode 'w' with the header as _init_csv_files does, then in mode 'a'   *)
(* any number of times, over whatever the destination held before.         *)
(***************************************************************************)
SinkRow(i) == <<"row", <<i>>>>
SinkDestination == <<"dynamic", 2>>
PriorContents ==
    {<<>>, <<CSV_HEADERS>>, <<CSV_HEADERS, SinkRow(1)>>, <<SinkRow(2)>>}
AppendData == {<<>>, <<SinkRow(1)>>, <<SinkRow(2)>>, <<SinkRow(1), SinkRow(2)>>}

InitSink ==
    /\ pc = "sink_new"
    /\ mode = "sink"
    /\ cfg = CHOOSE c \in SingleConfigs : TRUE
    /\ descriptors = <<>>
    /\ ledger = <<>>
    /\ \E prior \in PriorContents :
         files = [n \in BaseNames |-> IF n = SinkDestination THEN prior ELSE <<>>]
    /\ apiClient = FALSE
    /\ sessionClosed = FALSE
    /\ mainRet = "none"
    /\ b = BatchFrame0
    /\ s = [SingleFrame0 EXCEPT !.base = SinkDestination]
    /\ faults = 0
    /\ served = 0
    /\ slept = FALSE
    /\ netUsed = FALSE
    /\ failed = {}
    /\ allDone = FALSE
    /\ run = 1
    /\ restarted = FALSE
    /\ crashSnap = NoSnap
    /\ f = FetchFrame0
    /\ u = FeedFrame0
    /\ conv = ConvFrame0

\* write_csv(path, [], headers, mode='w'); a failed call leaves the sink to be
\* initialized.
SinkInitialize ==
    /\ pc = "sink_new"
    /\ \E outcome \in WriteOutcomes("w") :
         /\ files' = [files EXCEPT ![s.base] = write_csv(@, <<>>, CSV_HEADERS, "w", outcome)]
         /\ faults' = IF outcome = "ok" THEN faults ELSE faults + 1
         /\ pc' = IF outcome = "ok" THEN "sink" ELSE "sink_new"
    /\ UNCHANGED <<mode, cfg, descriptors, ledger, apiClient, sessionClosed, mainRet,
                   b, s, served, slept, netUsed, failed, run, allDone, restarted, crashSnap, f, u, conv>>

\* write_csv(path, data, headers, mode='a') with or without a header argument;
\* s.due keeps the rows of the calls that returned True.
SinkAppend ==
    /\ pc = "sink"
    /\ Len(s.due) < MaxSinkRows
    /\ \E data \in AppendData, headers \in {<<>>, CSV_HEADERS}, outcome \in WriteOutcomes("a") :
         /\ files' = [files EXCEPT ![s.base] = write_csv(@, data, headers, "a", outcome)]
         /\ faults' = IF outcome = "ok" THEN faults ELSE faults + 1
         /\ s' = [s EXCEPT !.due = IF outcome = "ok" THEN @ \o data ELSE @]
    /\ pc' = "sink"
    /\ UNCHANGED <<mode, cfg, descriptors, ledger, apiClient, sessionClosed, mainRet,
                   b, served, slept, netUsed, failed, run, allDone, restarted, crashSnap, f, u, conv>>

NextSink == SinkInitialize \/ SinkAppend

SpecSink == InitSink /\ [][NextSink]_vars

(***************************************************************************)
(* A direct call of crawl_batch_targets in which the issue of a request    *)
(* and the return of session.get are separate steps.                       *)
(***************************************************************************)
\* The next statement of the thread of control is a get_* call.
AtRequest ==
    \/ pc = "single" /\ NeedsLookup(s.cur)
    \/ pc = "top"
    \/ pc = "mainloop" /\ s.page <= s.end
    \/ pc = "sub" /\ s.subPage <= s.subTotal

\* The thread enters session.get: the request goes out.
IssueRequest ==
    /\ AtRequest
    /\ f.api = "none"
    /\ f' = [f EXCEPT !.api = (IF pc = "single" THEN "info"
                               ELSE IF pc = "sub" THEN "reply" ELSE "main"),
                      !.inflight = @ + 1]
    /\ UNCHANGED <<pc, mode, cfg, descriptors, ledger, files, apiClient, sessionClosed,
                   mainRet, b, s, faults, served, slept, netUsed, failed, run, allDone,
                   restarted, crashSnap, u, conv>>

\* Every other step: a get_* call goes on from the return of session.get.
NextSeq == IssueRequest \/ ((AtRequest => f.api # "none") /\ NextBatchCall)

SpecSeq == InitBatchCall /\ [][NextSeq]_vars

(***************************************************************************)
(* UserSpaceCrawler.crawl_user_dynamics: the traversal of a user's feed    *)
(* that writes the descriptor file.  One call on a fresh crawler; the      *)
(* content of data/user/<mid>.csv is kept in `descriptors`.                *)
(***************************************************************************)
\* A feed item with a comment id and a known comment type, and one without.
Good == [ok |-> TRUE]
Junk == [ok |-> FALSE]
FeedShapes == {<<>>, <<Good>>, <<Junk, Good>>, <<Good, Good>>}
FeedTokens == {NoToken, 1, 2}
Feed(items, offset, has_more) ==
    [k |-> "feed", items |-> items, offset |-> offset, has_more |-> has_more]

FeedFinals ==
    ErrorFinals \cup {Resp(200, 0, NoData), Resp(200, 0, Scalar)}
    \cup {Resp(200, 0, Feed(i, o, h)) : i \in FeedShapes, o \in FeedTokens, h \in BOOLEAN}

\* A feed that goes on as long as the response carries a token.
feed_continues_on_token(offset, has_more) == offset # NoToken

\* "while offset and data.get('has_more', False)" (line 67)
feed_continues(offset, has_more) == offset # NoToken /\ has_more

\* What the remote answers to the n-th request: it announces a further page
\* only for the first MaxFeedPages - 1 requests.
Answering(n) ==
    IF n < MaxFeedPages THEN FeedFinals
    ELSE {x \in FeedFinals :
            ApiFailed(x) \/ x.data.k # "feed" \/ ~x.data.has_more}

\* _process_dynamics_data, lines 120-148: the rows of the items that carry a
\* comment id and a known type, in the order of the response.
user_rows(items, page) ==
    LET tagged == [j \in 1..Len(items) |->
                      [ok |-> items[j].ok, row |-> <<"item", <<page, j>>>>]]
        kept == SelectSeq(tagged, LAMBDA e : e.ok)
    IN [j \in 1..Len(kept) |-> kept[j].row]

FeedRows(data, page) == IF data.k = "feed" THEN user_rows(data.items, page) ELSE <<>>

\* _process_dynamics_data, lines 150-159: one append of the page's rows, when
\* there are any; every exception is caught inside.
process_dynamics_data(content, data, page, outcome) ==
    IF FeedRows(data, page) = <<>> THEN content
    ELSE write_csv(content, FeedRows(data, page), <<>>, "a", outcome)

FeedRes(final) ==
    IF ApiFailed(final) THEN "failed"
    ELSE IF Falsy(ApiReturn(final)) THEN "nodata"
    ELSE IF ApiReturn(final).k = "feed" THEN "page"
    ELSE "malformed"

\* One entry of the log of feed requests: the token passed, what came back,
\* and the token and flag of the response.
FeedEntry(token, final, page) ==
    LET data == ApiReturn(final) IN
    [token |-> token, res |-> FeedRes(final),
     offset |-> IF FeedRes(final) = "page" THEN data.offset ELSE NoToken,
     has_more |-> IF FeedRes(final) = "page" THEN data.has_more ELSE FALSE,
     rows |-> IF FeedRes(final) = "page" THEN FeedRows(data, page) ELSE <<>>]

InitFeed ==
    /\ pc = "feed"
    /\ mode = "feed"
    /\ cfg = CHOOSE c \in SingleConfigs : TRUE
    /\ descriptors \in {<<>>, <<USER_CSV_HEADERS, <<"item", <<1, 1>>>>>>}
    /\ ledger = <<>>
    /\ files = [n \in BaseNames |-> <<>>]
    /\ apiClient = TRUE
    /\ sessionClosed = FALSE
    /\ mainRet = "none"
    /\ b = BatchFrame0
    /\ s = SingleFrame0
    /\ faults = 0
    /\ served = 0
    /\ slept = FALSE
    /\ netUsed = FALSE
    /\ failed = {}
    /\ allDone = FALSE
    /\ run = 1
    /\ restarted = FALSE
    /\ crashSnap = NoSnap
    /\ f = FetchFrame0
    /\ u = FeedFrame0
    /\ conv = ConvFrame0

\* line 52: write_csv(output_file, [], CSV_HEADERS, mode='w').
FeedInitCsv ==
    /\ pc = "feed"
    /\ \E outcome \in WriteOutcomes("w") :
         /\ descriptors' = write_csv(descriptors, <<>>, USER_CSV_HEADERS, "w", outcome)
         /\ faults' = IF outcome = "ok" THEN faults ELSE faults + 1
    /\ pc' = "feed_first"
    /\ UNCHANGED <<mode, cfg, ledger, files, apiClient, sessionClosed, mainRet, b, s,
                   served, slept, netUsed, failed, run, allDone, restarted, crashSnap, f, u, conv>>

\* lines 55-65: the first page, requested without a token; no data returns
\* False, and so does a payload that data.get raises on (lines 96-98).
FeedFirstPage ==
    /\ pc = "feed_first"
    /\ \E final \in Answering(1) :
         LET data == ApiReturn(final)
             res == FeedRes(final)
             rows == FeedRows(data, 1)
         IN
         \E outcome \in (IF rows = <<>> THEN {"ok"} ELSE WriteOutcomes("a")) :
           /\ faults' = IF outcome = "ok" THEN faults ELSE faults + 1
           /\ IF res = "page"
              THEN /\ descriptors' = process_dynamics_data(descriptors, data, 1, outcome)
                   /\ u' = [u EXCEPT !.log = Append(@, FeedEntry(NoToken, final, 1)),
                                     !.handed = @ \o rows,
                                     !.offset = data.offset,
                                     !.has_more = data.has_more,
                                     !.page_count = 1]
                   /\ pc' = "feed_loop"
                   /\ UNCHANGED sessionClosed
              ELSE /\ u' = [u EXCEPT !.log = Append(@, FeedEntry(NoToken, final, 1)),
                                     !.ret = "False"]
                   /\ pc' = "feed_ret"
                   /\ sessionClosed' = TRUE
                   /\ UNCHANGED descriptors
    /\ netUsed' = TRUE
    /\ slept' = FALSE
    /\ UNCHANGED <<mode, cfg, ledger, files, apiClient, mainRet, b, s,
                   served, failed, run, allDone, restarted, crashSnap, f, conv>>

\* lines 67-94: one turn of the loop: the next page is requested with the
\* token of the previous response; no data and an exception leave the loop;
\* a page is processed, the token is replaced, and the delay is paid when the
\* response announces more.
FeedNextPage ==
    /\ pc = "feed_loop"
    /\ feed_continues(u.offset, u.has_more)
    /\ \E final \in Answering(u.page_count + 1) :
         LET data == ApiReturn(final)
             res == FeedRes(final)
             page == u.page_count + 1
             rows == FeedRows(data, page)
         IN
         \E outcome \in (IF rows = <<>> THEN {"ok"} ELSE WriteOutcomes("a")) :
           /\ faults' = IF outcome = "ok" THEN faults ELSE faults + 1
           /\ IF res = "page"
              THEN /\ descriptors' = process_dynamics_data(descriptors, data, page, outcome)
                   /\ u' = [u EXCEPT !.log = Append(@, FeedEntry(u.offset, final, page)),
                                     !.handed = @ \o rows,
                                     !.offset = data.offset,
                                     !.has_more = data.has_more,
                                     !.page_count = page]
                   /\ slept' = data.has_more
                   /\ pc' = "feed_loop"
                   /\ UNCHANGED sessionClosed
              ELSE /\ u' = [u EXCEPT !.log = Append(@, FeedEntry(u.offset, final, page)),
                                     !.ret = "True"]
                   /\ slept' = FALSE
                   /\ pc' = "feed_ret"
                   /\ sessionClosed' = TRUE
                   /\ UNCHANGED descriptors
    /\ netUsed' = TRUE
    /\ UNCHANGED <<mode, cfg, ledger, files, apiClient, mainRet, b, s,
                   served, failed, run, allDone, restarted, crashSnap, f, conv>>

\* lines 67 and 96-103: the loop is left and the call returns True.
FeedReturn ==
    /\ pc = "feed_loop"
    /\ ~feed_continues(u.offset, u.has_more)
    /\ u' = [u EXCEPT !.ret = "True"]
    /\ sessionClosed' = TRUE
    /\ pc' = "feed_ret"
    /\ UNCHANGED <<mode, cfg, descriptors, ledger, files, apiClient, mainRet, b, s, faults,
                   served, slept, netUsed, failed, run, allDone, restarted, crashSnap, f, conv>>

\* The caller takes the result of crawl_user_dynamics.
FeedExit ==
    /\ pc = "feed_ret"
    /\ mainRet' = u.ret
    /\ pc' = "exit"
    /\ UNCHANGED <<mode, cfg, descriptors, ledger, files, apiClient, sessionClosed, b, s,
                   faults, served, slept, netUsed, failed, run, allDone, restarted,
                   crashSnap, f, u, conv>>

NextFeed ==
    \/ FeedInitCsv
    \/ FeedFirstPage
    \/ FeedNextPage
    \/ FeedReturn
    \/ FeedExit

SpecFeed == InitFeed /\ [][NextFeed]_vars

(***************************************************************************)
(* Discovery followed by a batch run's _load_batch_tasks on the same disk, *)
(* on which the feed's file is the only descriptor file.                   *)
(***************************************************************************)
\* line 49: output_file = f"data/user/{mid}.csv"
feed_output_dir == "data/user"

\* get_files_in_directory: the .csv files under `directory`, as contents.
get_files_in_directory(directory) ==
    IF directory = feed_output_dir THEN <<descriptors>> ELSE <<>>

\* crawler.py lines 139-140: the batch loads its tasks from the files of user/.
DiscoverLoad ==
    /\ pc = "exit"
    /\ mode = "feed"
    /\ b' = [b EXCEPT !.tasks = load_batch_tasks(get_files_in_directory("user"))]
    /\ pc' = "loaded"
    /\ UNCHANGED <<mode, cfg, descriptors, ledger, files, apiClient, sessionClosed, mainRet,
                   s, faults, served, slept, netUsed, failed, run, allDone, restarted,
                   crashSnap, f, u, conv>>

NextDiscover == NextFeed \/ DiscoverLoad

SpecDiscover == InitFeed /\ [][NextDiscover]_vars

(***************************************************************************)
(* platform_utils: av2bv, bv2av and validate_bv_format.  Python integers   *)
(* are unbounded; a number is kept as three limbs <<hi, mid, lo>> of 18    *)
(* bits, hi * 2^36 + mid * 2^18 + lo, and the arithmetic is done on limbs. *)
(***************************************************************************)
LIMB == 262144
XOR_CODE == <<341, 36187, 19675>>           \* 23442827791579
MASK_CODE == <<32767, 262143, 262143>>      \* 2251799813685247
MAX_AID == <<32768, 0, 0>>                  \* 1 << 51
ALPHABET ==
    <<"F", "c", "w", "A", "P", "N", "K", "T", "M", "u", "g", "3", "G", "V",
      "5", "L", "j", "7", "E", "J", "n", "H", "p", "W", "s", "x", "4", "t",
      "b", "8", "h", "a", "Y", "e", "v", "i", "q", "B", "z", "6", "r", "k",
      "C", "y", "1", "2", "m", "U", "S", "D", "Q", "X", "9", "R", "d", "o",
      "Z", "f">>
ENCODE_MAP == <<8, 7, 0, 5, 1, 3, 2, 4, 6>>
DECODE_MAP == [i \in 1..Len(ENCODE_MAP) |-> ENCODE_MAP[Len(ENCODE_MAP) + 1 - i]]
BASE == Len(ALPHABET)
PREFIX == <<"B", "V", "1">>
CODE_LEN == Len(ENCODE_MAP)

RECURSIVE BitXor(_, _)
BitXor(x, y) ==
    IF x = 0 THEN y ELSE IF y = 0 THEN x
    ELSE (((x % 2) + (y % 2)) % 2) + 2 * BitXor(x \div 2, y \div 2)
RECURSIVE BitOr(_, _)
BitOr(x, y) ==
    IF x = 0 THEN y ELSE IF y = 0 THEN x
    ELSE (IF (x % 2) + (y % 2) > 0 THEN 1 ELSE 0) + 2 * BitOr(x \div 2, y \div 2)
RECURSIVE BitAnd(_, _)
BitAnd(x, y) ==
    IF x = 0 \/ y = 0 THEN 0
    ELSE (IF (x % 2) + (y % 2) = 2 THEN 1 ELSE 0) + 2 * BitAnd(x \div 2, y \div 2)

LXor(x, y) == [i \in 1..3 |-> BitXor(x[i], y[i])]
LOr(x, y) == [i \in 1..3 |-> BitOr(x[i], y[i])]
LAnd(x, y) == [i \in 1..3 |-> BitAnd(x[i], y[i])]

\* x % BASE and x // BASE by long division over the limbs.
LDivMod(x) ==
    LET t2 == (x[1] % BASE) * LIMB + x[2]
        t3 == (t2 % BASE) * LIMB + x[3]
    IN [q |-> <<x[1] \div BASE, t2 \div BASE, t3 \div BASE>>, r |-> t3 % BASE]

\* x * BASE + d over the limbs.
LMulAdd(x, d) ==
    LET lo == x[3] * BASE + d
        mid == x[2] * BASE + (lo \div LIMB)
        hi == x[1] * BASE + (mid \div LIMB)
    IN <<hi, mid % LIMB, lo % LIMB>>

\* The digits the loop of av2bv takes from tmp, least significant first.
RECURSIVE Digits(_, _)
Digits(tmp, n) ==
    IF n = 0 THEN <<>> ELSE <<LDivMod(tmp).r>> \o Digits(LDivMod(tmp).q, n - 1)

\* av2bv, lines 29-39: the prefix and the nine characters, digit i at
\* position ENCODE_MAP[i]; a non-positive aid raises.
av2bv(aid) ==
    IF aid = <<0, 0, 0>> THEN [ok |-> FALSE, bvid |-> <<>>]
    ELSE LET d == Digits(LXor(LOr(MAX_AID, aid), XOR_CODE), CODE_LEN)
             at(pos) == CHOOSE i \in 1..CODE_LEN : ENCODE_MAP[i] = pos - 1
         IN [ok |-> TRUE,
             bvid |-> PREFIX \o [pos \in 1..CODE_LEN |-> ALPHABET[d[at(pos)] + 1]]]

InAlphabet(c) == \E k \in 1..BASE : ALPHABET[k] = c
\* ALPHABET.index(c)
AlphabetIndex(c) ==
    (CHOOSE k \in 1..BASE : ALPHABET[k] = c /\ \A j \in 1..(k - 1) : ALPHABET[j] # c) - 1

StartsWithPrefix(bvid) ==
    Len(bvid) >= Len(PREFIX) /\ SubSeq(bvid, 1, Len(PREFIX)) = PREFIX

\* bv2av, line 66: (tmp & MASK_CODE) ^ XOR_CODE
bv2av_tail(tmp) == LXor(LAnd(tmp, MASK_CODE), XOR_CODE)

RECURSIVE Decode(_, _, _)
Decode(body, i, tmp) ==
    IF i > CODE_LEN THEN tmp
    ELSE Decode(body, i + 1, LMulAdd(tmp, AlphabetIndex(body[DECODE_MAP[i] + 1])))

\* bv2av, lines 52-66: the checks raise ValueError.
bv2av(bvid) ==
    IF ~StartsWithPrefix(bvid) THEN [ok |-> FALSE, aid |-> <<0, 0, 0>>]
    ELSE LET body == SubSeq(bvid, Len(PREFIX) + 1, Len(bvid)) IN
         IF Len(body) # 9 \/ \E k \in 1..Len(body) : ~InAlphabet(body[k])
         THEN [ok |-> FALSE, aid |-> <<0, 0, 0>>]
         ELSE [ok |-> TRUE, aid |-> bv2av_tail(Decode(body, 1, <<0, 0, 0>>))]

\* validate_bv_format, lines 105-115
validate_bv_format(bvid) ==
    /\ StartsWithPrefix(bvid)
    /\ Len(bvid) = Len(PREFIX) + 9
    /\ \A k \in (Len(PREFIX) + 1)..Len(bvid) : InAlphabet(bvid[k])

\* The aids the calls are made with: 0 (refused), small ones, 170001 (the
\* value of test.py), and values around 2^36, 2^51 and 2^52.
AidInputs ==
    {<<h, m, l>> : h \in {0, 1, 32767, 32768, 32769, 65536},
                   m \in {0, 1, 262143}, l \in {0, 1, 170001, 262143}}

InitConv ==
    /\ pc = "conv"
    /\ mode = "conv"
    /\ cfg = CHOOSE c \in SingleConfigs : TRUE
    /\ descriptors = <<>>
    /\ ledger = <<>>
    /\ files = [n \in BaseNames |-> <<>>]
    /\ apiClient = FALSE
    /\ sessionClosed = FALSE
    /\ mainRet = "none"
    /\ b = BatchFrame0
    /\ s = SingleFrame0
    /\ faults = 0
    /\ served = 0
    /\ slept = FALSE
    /\ netUsed = FALSE
    /\ failed = {}
    /\ allDone = FALSE
    /\ run = 1
    /\ restarted = FALSE
    /\ crashSnap = NoSnap
    /\ f = FetchFrame0
    /\ u = FeedFrame0
    /\ \E aid \in AidInputs : conv = [ConvFrame0 EXCEPT !.aid = aid]

\* bvid = av2bv(aid)
ConvEncode ==
    /\ pc = "conv"
    /\ IF av2bv(conv.aid).ok
       THEN /\ conv' = [conv EXCEPT !.bvid = av2bv(conv.aid).bvid]
            /\ pc' = "encoded"
       ELSE /\ pc' = "conv_raised"
            /\ UNCHANGED conv
    /\ UNCHANGED <<mode, cfg, descriptors, ledger, files, apiClient, sessionClosed, mainRet,
                   b, s, faults, served, slept, netUsed, failed, run, allDone, restarted,
                   crashSnap, f, u>>

\* bv2av(bvid) and validate_bv_format(bvid)
ConvDecode ==
    /\ pc = "encoded"
    /\ IF bv2av(conv.bvid).ok
       THEN /\ conv' = [conv EXCEPT !.back = bv2av(conv.bvid).aid,
                                    !.valid = validate_bv_format(conv.bvid)]
            /\ pc' = "decoded"
       ELSE /\ pc' = "conv_raised"
            /\ UNCHANGED conv
    /\ UNCHANGED <<mode, cfg, descriptors, ledger, files, apiClient, sessionClosed, mainRet,
                   b, s, faults, served, slept, netUsed, failed, run, allDone, restarted,
                   crashSnap, f, u>>

NextConv == ConvEncode \/ ConvDecode

SpecConv == InitConv /\ [][NextConv]_vars

(***************************************************************************)
(* Properties.                                                             *)
(***************************************************************************)
IsPrefix(p, q) == Len(p) <= Len(q) /\ \A k \in 1..Len(p) : p[k] = q[k]
Ascending(n) == [k \in 1..n |-> k]
HasRow(content, row) == \E k \in 1..Len(content) : content[k] = row

\* The least n with n * p >= r.
Ceil(r, p) == CHOOSE n \in 0..r : n * p >= r /\ (n - 1) * p < r

\* C1: for a root comment declaring r > 0 replies under page size p, the reply
\* traversal requests the pages 1, 2, ... in ascending order, each once, and
\* when it returns it has requested exactly the pages 1..ceil(r / p), whatever
\* the pages gave (no data, an empty list, a payload that raises); 45 replies
\* under page size 20 are 3 pages.
C1_ReplyPagesAttempted ==
    /\ total_pages(45, 20) = 3
    /\ pc = "sub" =>
        /\ s.rcount > 0
        /\ s.subLog = Ascending(Len(s.subLog))
        /\ Len(s.subLog) <= Ceil(s.rcount, cfg.ps)
        /\ (~ENABLED CrawlSubFetch => Len(s.subLog) = Ceil(s.rcount, cfg.ps))

\* A traversal of 3 declared replies under page size 2 is over after pages 1
\* and 2, page 1 having given nothing and page 2 a reply.
C1_Witness ==
    /\ pc = "sub"
    /\ ENABLED CrawlSubReturn
    /\ s.rcount = 3
    /\ cfg.ps = 2
    /\ s.subLog = <<1, 2>>
    /\ faults = 0
    /\ HasRow(files[s.base], <<"row", s.root \o <<2, 1>>>>)
    /\ ~HasRow(files[s.base], <<"row", s.root \o <<1, 1>>>>)

\* The requests of the main sequence of the current target, in order.
MainLog == SelectSeq(s.rootLog, LAMBDA e : e.src = "main")

\* C2 (as stated): the root-comment page requests of a target, the pinned
\* fetch included, start at start_page, increase, never exceed end_page, and
\* none follows a request whose fetch gave no data.
C2_AllRootRequests ==
    LET L == s.rootLog IN
    /\ (L # <<>> => L[1].page = s.start)
    /\ \A k \in 1..Len(L) : L[k].page <= s.end
    /\ \A k \in 1..(Len(L) - 1) : L[k].page <= L[k + 1].page
    /\ \A k \in 1..(Len(L) - 1) : L[k].res \notin {"failed", "nodata"}

\* C2 (amended): after the one pinned fetch of page 1, whose outcome stops
\* nothing, the requests of the main sequence start at start_page, increase
\* strictly, never exceed end_page, and none follows a main-sequence request
\* that gave no data or an empty comment list.
C2_MainSequence ==
    LET L == MainLog IN
    /\ (L # <<>> => L[1].page = s.start)
    /\ \A k \in 1..Len(L) : L[k].page <= s.end
    /\ \A k \in 1..(Len(L) - 1) : L[k].page < L[k + 1].page
    /\ \A k \in 1..(Len(L) - 1) : L[k].res = "page"
    /\ \A k \in 1..Len(s.rootLog) : s.rootLog[k].src = "top" => k = 1 /\ s.rootLog[k].page = 1

\* Pages 1 and 2 requested, page 2 empty, and the target returned with page 2
\* the last request although end_page allowed more.
C2_Witness ==
    /\ pc = "single_ret"
    /\ s.start = 1
    /\ Len(MainLog) = 2
    /\ MainLog[1].res = "page"
    /\ MainLog[2].res = "empty"
    /\ s.rootLog[1].res \in {"failed", "nodata"}

\* C3: a second run over a descriptor list whose every target is already in
\* the ledger issues no network request.
C3_RerunIssuesNoRequest == (run = 2 /\ allDone) => ~netUsed

\* C4: a direct crawl killed with the header and k records in the destination
\* and started again (no disk fault in either run) keeps that header and those
\* k records at the head of the destination.
C4_RestartKeepsRecords ==
    (/\ restarted
     /\ faults = 0
     /\ crashSnap.content # <<>>
     /\ crashSnap.content[1] = CSV_HEADERS)
    => IsPrefix(crashSnap.content, files[crashSnap.base])

\* C5: the batch calls crawl_single_target for the tasks 1, 2, ... in list
\* order, each once, the running call is for the task of that position, and
\* the batch returns only after the last task, whatever the earlier ones
\* returned.
C5_EveryTargetOnce ==
    /\ b.attempts = Ascending(Len(b.attempts))
    /\ Len(b.attempts) <= Len(b.tasks)
    /\ (pc \in {"single", "init", "top", "mainloop", "item", "sub", "single_ret"}
          => s.cur = b.tasks[Len(b.attempts)])
    /\ (b.ret # "none" => Len(b.attempts) = Len(b.tasks))

\* The first of two targets returned False and the second was still crawled.
C5_Witness ==
    /\ pc = "exit"
    /\ b.attempts = <<1, 2>>
    /\ b.results = <<"False", "True">>

\* C6: crawl_batch_targets returns True exactly when the list is non-empty and
\* every call of crawl_single_target returned True; main returns that value.
C6_BatchResult ==
    /\ b.ret # "none" =>
         (b.ret = "True" <=>
            /\ b.tasks # <<>>
            /\ Len(b.results) = Len(b.tasks)
            /\ \A k \in 1..Len(b.results) : b.results[k] = "True")
    /\ (pc = "exit" /\ b.ret # "none") => mainRet = b.ret

\* One success and one failure: the batch and main return False.
C6_Witness ==
    /\ pc = "exit"
    /\ b.results = <<"True", "False">>
    /\ mainRet = "False"

\* C7: a batch in which a root-page fetch of the main sequence failed (HTTP
\* error, retries exhausted, non-zero application code) does not return True,
\* and the target of that fetch is not counted as succeeded.
C7_FailedFetchFailsBatch ==
    /\ b.ret = "True" => failed = {}
    /\ \A k \in failed : k <= Len(b.results) => b.results[k] # "True"

\* C8: session.get makes at most budget + 1 attempts; when j transient
\* failures are followed by HTTP 200 with code 0, the call returns the data
\* after j + 1 attempts if j <= budget, and None after budget + 1 attempts
\* otherwise.
C8_RetryBudget ==
    /\ f.attempts <= f.budget + 1
    /\ (pc = "fetched" /\ f.final.status = 200 /\ f.final.code = 0) =>
         IF f.j <= f.budget
         THEN f.outcome = "ok" /\ f.ret = f.final.data /\ f.attempts = f.j + 1
         ELSE f.outcome = "exception" /\ f.ret = NoData /\ f.attempts = f.budget + 1

\* Three transient failures under a budget of three, then the data.
C8_Witness ==
    /\ pc = "fetched"
    /\ f.budget = 3
    /\ f.j = 3
    /\ f.attempts = 4
    /\ f.ret = Data(<<>>, <<C(0)>>)

\* An answer that is neither a connection error nor a 500/502/503/504, and is
\* not HTTP 200 with code 0.
Terminal(raw) ==
    /\ raw.k = "resp"
    /\ raw.status \notin {500, 502, 503, 504}
    /\ (raw.status # 200 \/ raw.code # 0)

\* C9: a non-transient HTTP status, or HTTP 200 with a non-zero code, is not
\* retried: no attempt follows it, the call returns None, and when it is the
\* first answer the call made exactly one request.
C9_NoRetryOnTerminal ==
    /\ (f.attempts > 0 /\ Terminal(f.last)) => pc # "call"
    /\ (pc = "fetched" /\ Terminal(f.final) /\ f.j <= f.budget) =>
         /\ f.attempts = f.j + 1
         /\ f.ret = NoData
         /\ f.outcome \in {"http_error", "app_error"}

\* A configuration file that is there, has credentials that are neither empty
\* nor the placeholders, a page size of 1..20 and 1 <= start_page <= end_page.
ConfigAccepted(c) ==
    /\ c.file = "ok"
    /\ c.cookies_str \notin {"", COOKIES_DEFAULT}
    /\ c.bili_jct \notin {"", JCT_DEFAULT}
    /\ c.ps >= 1 /\ c.ps <= 20
    /\ c.start >= 1
    /\ c.end >= c.start

\* C10: with a missing or empty configuration file, or one that fails a
\* validation rule, the run creates no crawler, issues no network request and
\* main returns False.
C10_ConfigGate ==
    ~ConfigAccepted(cfg) =>
        /\ ~apiClient
        /\ ~netUsed
        /\ pc \in {"main", "exit"}
        /\ (pc = "exit" => mainRet = "False")

\* A configuration wrong only in end_page < start_page has ended the run.
C10_Witness ==
    /\ pc = "exit"
    /\ mainRet = "False"
    /\ validate(cfg) = <<"end_page">>
    /\ load_batch_tasks(descriptors) # <<>>
    /\ ~apiClient
    /\ ~netUsed

\* The rows of `content` that are root records of root-comment page `page`
\* (page 0: the pinned set).
RootRowsOf(content, page) ==
    {k \in 1..Len(content) :
        /\ Len(content[k]) = 2
        /\ Len(content[k][2]) = 2
        /\ content[k][2][1] = page}

\* The traversal is about to request the next root-comment page.
AtNextRootFetch == pc = "mainloop" /\ s.page <= s.end

C12_CursorAfterDurableWrite ==
    /\ pc = "mainloop" =>
         \A k \in 1..Len(s.rootLog) :
            (s.rootLog[k].src = "main" /\ ~s.rootLog[k].bad) =>
               Cardinality(RootRowsOf(files[s.base], s.rootLog[k].page)) = s.rootLog[k].n
    /\ pc = "sub" =>
         \A k \in 1..Len(s.due) :
            (Len(s.due[k][2]) = 4 /\ s.due[k][2][3] < s.subPage) =>
               HasRow(files[s.base], s.due[k])

\* C13: after one initialize (mode 'w' with the header) followed by any number
\* of appends (mode 'a'), the destination is the header row followed by the
\* appended rows in call order, whatever it held before and whether or not an
\* append was passed a header; the header occurs once, as the first row.
C13_SinkContract ==
    pc = "sink" =>
        LET content == files[s.base] IN
        /\ content = <<CSV_HEADERS>> \o s.due
        /\ content[1] = CSV_HEADERS
        /\ Cardinality({k \in 1..Len(content) : content[k] = CSV_HEADERS}) = 1

\* Three appends of one, no and two rows after the initialize.
C13_Witness ==
    /\ pc = "sink"
    /\ faults = 0
    /\ files[s.base] = <<CSV_HEADERS, SinkRow(2), SinkRow(1), SinkRow(2)>>

\* Whether a row of the destination is a root record (of a page or pinned).
IsRootRow(row) == Len(row) = 2 /\ Len(row[2]) = 2

\* C14: within one target the root records stand in the destination in the
\* order of their pages (ascending page number) and, within a page, in the
\* order the response listed them.
C14_RootOrder ==
    LET content == files[s.base] IN
    (pc \in {"top", "mainloop", "item", "sub", "single_ret"} /\ s.base # NoBase) =>
        \A i, j \in 1..Len(content) :
            (i < j /\ IsRootRow(content[i]) /\ IsRootRow(content[j])) =>
                LET x == content[i][2]
                    y == content[j][2]
                IN  x[1] < y[1] \/ (x[1] = y[1] /\ x[2] < y[2])

\* Two comments of page 1, then one of page 2.
C14_Witness ==
    /\ pc = "single_ret"
    /\ s.base # NoBase
    /\ SelectSeq(files[s.base], IsRootRow)
         = <<<<"row", <<1, 1>>>>, <<"row", <<1, 2>>>>, <<"row", <<2, 1>>>>>>

\* C15: a record has its parent_rpid set exactly when it was built by the
\* reply traversal; it is then the id of the root comment the reply page was
\* requested under, and pinned and root records have none.
C15_ParentIffReply ==
    \A k \in 1..Len(s.made) :
        LET m == s.made[k] IN
        /\ (m.rec.parent_rpid # NoParent) <=> (m.kind = "sub")
        /\ m.kind = "sub" => (m.rec.parent_rpid = m.under /\ m.under = s.root /\ s.root # <<>>)
        /\ m.kind \in {"top", "main"} => m.rec.parent_rpid = NoParent

\* A reply page under the first comment of root page 1 gave a record.
C15_Witness ==
    /\ pc = "sub"
    /\ Len(s.made) = 1
    /\ s.made[1].kind = "sub"
    /\ s.made[1].rec.parent_rpid = <<1, 1>>
    /\ s.made[1].rec.rpid = <<1, 1, 1, 1>>

\* C16: every step leaves the ledger as it is or appends one entry to it, and
\* an entry is appended only by the batch loop, for the target whose
\* crawl_single_target has just returned True; no step removes or rewrites a
\* line.
C16_LedgerAppendOnly ==
    [][/\ IsPrefix(ledger, ledger')
       /\ ledger' # ledger =>
            /\ pc = "single_ret"
            /\ s.ret = "True"
            /\ s.cur = b.tasks[b.i]
            /\ ledger' = Append(ledger, s.cur)]_vars

\* The first target returned False, the second True, and only the second is
\* in the ledger.
C16_Witness ==
    /\ pc = "exit"
    /\ run = 1
    /\ b.results = <<"False", "True">>
    /\ ledger = <<b.tasks[2]>>

\* The number of comments listed by the responses of a log of root-page requests.
RECURSIVE Listed(_)
Listed(log) == IF log = <<>> THEN 0 ELSE Head(log).n + Listed(Tail(log))

\* The page number the rows of a log entry carry (0: the pinned set).
RowPage(e) == IF e.src = "top" THEN 0 ELSE e.page

\* C17: when no write failed and no comment of a root response made the
\* processing raise, every comment the pinned response and the fetched root
\* pages listed is in the destination as a root record, once, so the number of
\* root records is the number of pinned comments plus the sum of the page
\* sizes; pages of sizes 2 and 0 without pinned comments leave 2 root records.
C17_RootRecordCount ==
    (/\ pc \in {"mainloop", "single_ret"}
     /\ s.base # NoBase
     /\ faults = 0
     /\ \A k \in 1..Len(s.rootLog) : ~s.rootLog[k].bad)
    =>
    LET content == files[s.base]
        roots == {k \in 1..Len(content) : IsRootRow(content[k])}
    IN
    /\ Cardinality(roots) = Listed(s.rootLog)
    /\ \A i, j \in roots : i # j => content[i] # content[j]
    /\ \A k \in 1..Len(s.rootLog) :
          \A pos \in 1..s.rootLog[k].n :
             HasRow(content, <<"row", <<RowPage(s.rootLog[k]), pos>>>>)

\* No pinned comments, page 1 with two comments, page 2 empty: the crawl has
\* returned with two root records.
C17_Witness ==
    /\ pc = "single_ret"
    /\ s.ret = "True"
    /\ faults = 0
    /\ Len(s.rootLog) = 3
    /\ s.rootLog[1].src = "top" /\ s.rootLog[1].res = "empty"
    /\ s.rootLog[2] = [src |-> "main", page |-> 1, res |-> "page", n |-> 2, bad |-> FALSE]
    /\ s.rootLog[3] = [src |-> "main", page |-> 2, res |-> "empty", n |-> 0, bad |-> FALSE]
    /\ Cardinality({k \in 1..Len(files[s.base]) : IsRootRow(files[s.base][k])}) = 2

\* A step that built a root record (pinned or of a page) and handed it to the sink.
RootRecordStep ==
    /\ pc = "item"
    /\ s.pending # <<>>
    /\ Head(s.pending).ok
    /\ pc' \in {"item", "sub"}

\* A step that enters the reply traversal.
EntersReplies == pc # "sub" /\ pc' = "sub"

\* C18: the reply traversal is entered only by the step that writes a root
\* record (pinned or of a page), and that step enters it, with the id and the
\* declared reply count of that record, exactly when the count is above 0; it
\* is not entered again for that record.  While the pinned set and the replies
\* under it are handled, no page of the main sequence has been requested.
C18_ReplyDispatch ==
    /\ [](s.ctx = "top" => MainLog = <<>>)
    /\ [][/\ EntersReplies => RootRecordStep
          /\ RootRecordStep =>
               LET rec == s'.made[1].rec IN
               /\ rec.rpid = <<(IF s.ctx = "top" THEN 0 ELSE s.page), s.pidx + 1>>
               /\ rec.reply_count = Head(s.pending).rcount
               /\ rec.is_top = (s.ctx = "top")
               /\ IF rec.reply_count > 0
                  THEN /\ EntersReplies
                       /\ s'.root = rec.rpid
                       /\ s'.rcount = rec.reply_count
                       /\ s'.subLog = <<>>
                       /\ s'.subPage = 1
                  ELSE pc' = "item"
          /\ (pc = "sub" /\ pc' # "sub") =>
               (pc' = "item" /\ s'.pidx = s.pidx /\ s'.ctx = s.ctx)]_vars

\* A pinned comment declaring replies was written and its reply traversal has
\* been entered before any page of the main sequence was requested.
C18_Witness ==
    /\ pc = "sub"
    /\ s.ctx = "top"
    /\ s.root = <<0, 1>>
    /\ s.rcount = 1
    /\ s.subLog = <<1>>
    /\ MainLog = <<>>
    /\ HasRow(files[s.base], <<"row", <<0, 1>>>>)

\* A step in which the fetch of a page of the main sequence fails.
MainFetchFails ==
    /\ pc = "mainloop"
    /\ Len(s'.rootLog) = Len(s.rootLog) + 1
    /\ s'.rootLog[Len(s'.rootLog)].res = "failed"

\* C19 (as stated): no root-comment page is requested for a target after a
\* root-comment page fetch of that target failed, the pinned fetch included.
C19_AnyFailedFetchEndsTarget ==
    \A k \in 1..(Len(s.rootLog) - 1) : s.rootLog[k].res # "failed"

\* C19 (amended): when the fetch of a page of the main sequence fails (HTTP error,
\* retries exhausted, application code), the target is done: the failing step
\* returns from the crawl and no root page is requested after it, that step
\* and the return to the batch leave every destination as it is, and the batch
\* goes on to the next task of the list.
C19_FailedPageEndsTarget ==
    /\ [](\A k \in 1..(Len(s.rootLog) - 1) :
             ~(s.rootLog[k].src = "main" /\ s.rootLog[k].res = "failed"))
    /\ [][/\ MainFetchFails => (pc' = "single_ret" /\ s'.ret # "none" /\ files' = files)
          /\ pc = "single_ret" =>
               (files' = files /\ pc' = "loop" /\ b'.i = b.i + 1)
          /\ (pc = "loop" /\ b.i <= Len(b.tasks)) =>
               (pc' = "single" /\ s'.cur = b.tasks[b.i] /\ files' = files)]_vars

\* The first target wrote a record and then had a page fetch fail; the record
\* is in its destination and the crawl of the second target is starting.
C19_Witness ==
    /\ pc = "single"
    /\ b.i = 2
    /\ 1 \in failed
    /\ b.tasks[1] = [oid |-> 2, type |-> DYNAMIC_IMAGE]
    /\ HasRow(files[<<"dynamic", 2>>], <<"row", <<1, 1>>>>)

\* A step that handles one reply page, whatever the page gave or raised.
ReplyPageStep == pc = "sub" /\ Len(s'.subLog) = Len(s.subLog) + 1

\* A step in which a comment of a root response (pinned or of a page) makes
\* the processing raise.
RootPageRaises == pc = "item" /\ s.pending # <<>> /\ ~Head(s.pending).ok

BoolValues == {"True", "False"}

\* C20: failures stay in the smallest enclosing unit.  A reply page, raising
\* or not, leaves its caller's loop over the root comments as it was, so every
\* comment of a root response that did not itself raise is handed to the
\* sink; a comment of a root page that raises sends the traversal to the next
\* page of the target, with no result returned yet and the destination as it
\* was; and crawl_single_target and crawl_batch_targets have returned "True"
\* or "False" whenever control is back at their caller.
C20_FailuresIsolated ==
    /\ [](/\ \A k \in 1..Len(s.rootLog) :
               (/\ ~s.rootLog[k].bad
                /\ (k < Len(s.rootLog) \/ pc \notin {"item", "sub"}))
               => \A pos \in 1..s.rootLog[k].n :
                     HasRow(s.due, <<"row", <<RowPage(s.rootLog[k]), pos>>>>)
          /\ pc = "single_ret" => s.ret \in BoolValues
          /\ pc = "batch_ret" => b.ret \in BoolValues
          /\ pc = "exit" => mainRet \in BoolValues)
    /\ [][/\ ReplyPageStep =>
               /\ pc' = "sub"
               /\ s'.pending = s.pending
               /\ s'.pidx = s.pidx
               /\ s'.ctx = s.ctx
               /\ s'.page = s.page
               /\ s'.ret = "none"
          /\ RootPageRaises =>
               /\ pc' = "mainloop"
               /\ s'.page = (IF s.ctx = "top" THEN s.start ELSE s.page + 1)
               /\ s'.ret = "none"
               /\ s'.rootLog = s.rootLog
               /\ files' = files]_vars

\* Page 1 listed two comments; the reply page under the first wrote one reply
\* and then raised (the delay of line 310 was not paid), and the second
\* comment of the page is in the destination all the same.
C20_Witness ==
    /\ mode = "batchcall"
    /\ pc = "item"
    /\ s.ctx = "main"
    /\ s.pending = <<>>
    /\ s.pidx = 2
    /\ ~slept
    /\ s.subLog = <<>>
    /\ files[s.base] = <<CSV_HEADERS, <<"row", <<1, 1>>>>, <<"row", <<1, 1, 1, 1>>>>,
                         <<"row", <<1, 2>>>>>>

\* A step of the traversal in which an append to the destination fails.
AppendFails == pc \in {"item", "sub"} /\ faults' > faults

\* C21: a failed append changes nothing in the traversal.  The step in which
\* it happens leaves the loop where a successful append leaves it (the next
\* comment of the response, the reply traversal of the record, the next reply
\* page), with the same page, the same request logs and no result yet; and a
\* target whose traversal ran returns True whether or not an append failed.
C21_WriteFailureNonFatal ==
    /\ []((pc = "single_ret" /\ s.base # NoBase) => s.ret = "True")
    /\ [][/\ (AppendFails /\ pc = "item") =>
               /\ s'.pending = Tail(s.pending)
               /\ s'.pidx = s.pidx + 1
               /\ s'.page = s.page
               /\ s'.ctx = s.ctx
               /\ s'.rootLog = s.rootLog
               /\ s'.ret = "none"
               /\ pc' = (IF Head(s.pending).rcount > 0 THEN "sub" ELSE "item")
               /\ pc' = "sub" =>
                    (s'.subPage = 1 /\ s'.subLog = <<>>
                     /\ s'.subTotal = Ceil(Head(s.pending).rcount, cfg.ps))
          /\ (AppendFails /\ pc = "sub") =>
               /\ pc' = "sub"
               /\ s'.subPage = s.subPage + 1
               /\ s'.subLog = Append(s.subLog, s.subPage)
               /\ s'.subTotal = s.subTotal
               /\ s'.pending = s.pending
               /\ s'.page = s.page
               /\ s'.ret = "none"]_vars

\* The append of the only comment of page 1 failed; page 2 was requested all
\* the same and the target returned True.
C21_Witness ==
    /\ pc = "single_ret"
    /\ s.ret = "True"
    /\ s.due = <<<<"row", <<1, 1>>>>>>
    /\ files[s.base] = <<CSV_HEADERS>>
    /\ Len(MainLog) = 2
    /\ MainLog[2].page = 2

\* C22: a video target whose object id av2bv accepts always gets a base name,
\* the title or video_<oid>, whatever the title lookup gave, and its traversal
\* runs; a target of another kind gets dynamic_<oid> without any request.
C22_LookupFailureNeverAborts ==
    (pc # "single" /\ s.cur # NoTarget) =>
       IF s.cur.type = VIDEO
       THEN s.cur.oid > 0 =>
               /\ s.base \in {<<"title", s.cur.oid>>, <<"video", s.cur.oid>>}
               /\ pc = "single_ret" => s.ret = "True"
       ELSE /\ s.base = <<"dynamic", s.cur.oid>>
            /\ pc = "init" => ~netUsed

\* C23: in a batch the inter-target delay is paid exactly once after each
\* target attempt, whatever the attempt returned: the number of delays paid
\* is the number of attempts that have returned to the loop, a delay is paid
\* only by the step that takes the result of an attempt, one at a time, and
\* the next attempt (or the end of the batch) starts with the delay paid.
C23_InterTargetDelay ==
    /\ [](/\ b.delays = Len(b.results)
          /\ pc = "loop" => (b.delays = Len(b.attempts) /\ (b.attempts # <<>> => slept))
          /\ (pc \notin {"loop", "batch_ret", "exit"} /\ b.attempts # <<>>) =>
                b.delays = Len(b.attempts) - 1)
    /\ [][/\ b'.delays # b.delays =>
               (pc = "single_ret" /\ pc' = "loop" /\ b'.delays = b.delays + 1)
          /\ pc = "single_ret" => b'.delays = b.delays + 1]_vars

\* Two attempts, the first returned False and the second True, and two delays
\* were paid.
C23_Witness ==
    /\ pc = "loop"
    /\ b.results = <<"False", "True">>
    /\ b.delays = 2

\* C24: between any two consecutive network requests of a process run a delay
\* is paid: whenever a request is about to be issued and the run has issued
\* one before, _sleep_random ran since that earlier request.
C24_DelayBeforeEveryRequest == (AtRequest /\ netUsed) => slept

\* C25: in the reply traversal the delay is paid after each reply-page fetch,
\* whatever the fetch returned: once a reply page was handled, _sleep_random
\* ran since its request.
C25_DelayAfterReplyFetch == (pc = "sub" /\ s.subLog # <<>>) => slept

\* The rows of the logged feed pages, in the order of the requests.
RECURSIVE FeedListed(_)
FeedListed(log) == IF log = <<>> THEN <<>> ELSE Head(log).rows \o FeedListed(Tail(log))

\* The response of a log entry announces a further page and names it.
Continues(e) == e.res = "page" /\ e.has_more /\ e.offset # NoToken

C27_SequentialFetches ==
    /\ [](/\ f.inflight <= 1
          /\ (f.api = "none") <=> (f.inflight = 0))
    /\ [][f'.inflight > f.inflight =>
            (f.inflight = 0 /\ f'.inflight = 1 /\ pc' = pc /\ s' = s /\ b' = b)]_vars

\* The reply-page request of the second target is outstanding, after the
\* requests of the first target and the root page of the second returned.
C27_Witness ==
    /\ f.inflight = 1
    /\ f.api = "reply"
    /\ pc = "sub"
    /\ b.i = 2
    /\ Len(b.results) = 1
    /\ Len(s.rootLog) >= 1
    /\ netUsed

\* C28: for every aid av2bv accepts, bv2av(av2bv(aid)) = aid and
\* validate_bv_format accepts av2bv(aid).
C28_RoundTrip ==
    /\ pc = "encoded" => validate_bv_format(conv.bvid)
    /\ pc = "decoded" => (conv.back = conv.aid /\ conv.valid)

\* The conditions of the claim that a configuration violates.
Violated(c) ==
    (IF c.cookies_str \in {"", COOKIES_DEFAULT} THEN {"cookies_str"} ELSE {})
    \cup (IF c.bili_jct \in {"", JCT_DEFAULT} THEN {"bili_jct"} ELSE {})
    \cup (IF c.ps < 1 \/ c.ps > 20 THEN {"ps"} ELSE {})
    \cup (IF c.start < 1 THEN {"start_page"} ELSE {})
    \cup (IF c.end < c.start THEN {"end_page"} ELSE {})

\* C29: CrawlConfig.validate returns the empty list exactly for a
\* configuration with both credentials set and not the placeholders,
\* 1 <= ps <= 20, start_page >= 1 and end_page >= start_page; every violated
\* condition has exactly one error in the list and the list holds nothing
\* else, so two placeholder credentials give at least 2 errors.
C29_ValidateErrors ==
    cfg.file = "ok" =>
       LET errors == validate(cfg) IN
       /\ (errors = <<>>) <=> ConfigAccepted(cfg)
       /\ Len(errors) = Cardinality(Violated(cfg))
       /\ \A n \in Violated(cfg) :
             Cardinality({k \in 1..Len(errors) : errors[k] = n}) = 1
       /\ (cfg.cookies_str = COOKIES_DEFAULT /\ cfg.bili_jct = JCT_DEFAULT) =>
             Len(errors) >= 2
       /\ pc # "main" => (load_config(cfg) <=> errors = <<>>)

\* A configuration with both placeholders, a page size above 20 and
\* start_page 0 was validated (four errors) and refused.
C29_Witness ==
    /\ pc = "exit"
    /\ mainRet = "False"
    /\ cfg.file = "ok"
    /\ cfg.cookies_str = COOKIES_DEFAULT
    /\ cfg.bili_jct = JCT_DEFAULT
    /\ cfg.ps = PS_MAX + 1
    /\ Len(validate(cfg)) = 4
    /\ Violated(cfg) = {"cookies_str", "bili_jct", "ps", "start_page"}

\* Whether a row of the destination is a comment record (not the header).
IsRecord(row) == Len(row) = 2 /\ row[1] = "row"

\* The place of a record in the depth-first traversal: root page, position in
\* the page, reply page, position in the reply page (0, 0 for a root record).
Place(row) ==
    IF IsRootRow(row) THEN row[2] \o <<0, 0>> ELSE row[2]

\* Lexicographic order of two places.
Earlier(x, y) ==
    \E k \in 1..4 : x[k] < y[k] /\ \A h \in 1..(k - 1) : x[h] = y[h]

\* C30: within a target's destination the records stand depth-first: a reply
\* record stands after the record of the root comment it was fetched under
\* and before the record of every later root comment, and the replies of one
\* root comment stand in ascending reply-page order (and, within a reply
\* page, in the order listed); when no append failed, the record of the root
\* comment of every reply record is in the destination.
C30_DepthFirstOrder ==
    LET content == files[s.base] IN
    (mode = "thread" /\ s.base # NoBase) =>
        /\ \A i, j \in 1..Len(content) :
              (i < j /\ IsRecord(content[i]) /\ IsRecord(content[j])) =>
                  Earlier(Place(content[i]), Place(content[j]))
        /\ faults = 0 =>
              \A j \in 1..Len(content) :
                  (IsRecord(content[j]) /\ ~IsRootRow(content[j])) =>
                      \E i \in 1..(j - 1) :
                          content[i] = <<"row", SubSeq(content[j][2], 1, 2)>>

\* The first comment of root page 1 has two reply pages of one reply each;
\* its record, the two replies and the record of the first comment of root
\* page 2 are in the destination.
C30_Witness ==
    /\ mode = "thread"
    /\ pc = "single_ret"
    /\ s.base # NoBase
    /\ files[s.base] = <<CSV_HEADERS, <<"row", <<1, 1>>>>, <<"row", <<1, 1, 1, 1>>>>,
                         <<"row", <<1, 1, 2, 1>>>>, <<"row", <<2, 1>>>>>>

\* C31: during one crawl of a target no root-comment page number is requested
\* more than once: the pinned-comment fetch and the root-page sequence never
\* request the same page.
C31_NoPageRequestedTwice ==
    \A i, j \in 1..Len(s.rootLog) :
        i < j => s.rootLog[i].page # s.rootLog[j].page

\* The requests of the current call are within what the loops allow.
RequestsBounded ==
    /\ s.lookups <= 1
    /\ Cardinality({k \in 1..Len(s.rootLog) : s.rootLog[k].src = "top"}) <= 1
    /\ Len(MainLog) <= s.end - s.start + 1
    /\ \A i, j \in 1..Len(MainLog) : i < j => MainLog[i].page < MainLog[j].page
    /\ \A k \in 1..Len(MainLog) : MainLog[k].page \in s.start..s.end
    /\ Len(s.subLog) <= Ceil(s.rcount, cfg.ps)
    /\ s.subLog = Ascending(Len(s.subLog))

\* C32: crawl_single_target terminates when each network call returns: it
\* issues at most one title lookup, one pinned fetch, end - start + 1
\* root-page fetches (never a page again, also after a page raised) and
\* ceil(r/ps) reply fetches per root comment declaring r replies, and then
\* returns True or False.
C32_Terminates ==
    /\ []RequestsBounded
    /\ [](pc \in {"single_ret", "exit"} => s.ret \in {"True", "False"})
    /\ <>(pc = "exit" /\ mainRet \in {"True", "False"})

\* A video target, pages 1 to 2: the title was looked up once, a comment of
\* page 1 raised, page 2 was fetched next and gave comments, and the call
\* returned True.
C32_Witness ==
    /\ mode = "single"
    /\ pc = "exit"
    /\ mainRet = "True"
    /\ s.lookups = 1
    /\ s.start = 1 /\ s.end = 2
    /\ Len(MainLog) = 2
    /\ MainLog[1].page = 1 /\ MainLog[1].bad
    /\ MainLog[2].page = 2 /\ MainLog[2].res = "page"

\* C33: the page range crawl_single_target traverses satisfies
\* 1 <= start <= end also when start_page and end_page are passed explicitly:
\* no page outside such a range is requested and no other range is reported
\* as a successful crawl.
C33_TraversedRangeValid ==
    (MainLog # <<>> \/ s.ret = "True") => (1 <= s.start /\ s.start <= s.end)

\* The targets of the rows of one file that have two columns and a known
\* kind code, in row order, the first row of the file left out.
RECURSIVE ValidTargets(_)
ValidTargets(rows) ==
    IF rows = <<>> THEN <<>>
    ELSE (IF Len(Head(rows)) >= 2 /\ Head(rows)[2] \in {"1", "11", "17"}
          THEN <<[oid |-> Head(rows)[1],
                  type |-> IF Head(rows)[2] = "1" THEN 1
                           ELSE IF Head(rows)[2] = "11" THEN 11 ELSE 17]>>
          ELSE <<>>) \o ValidTargets(Tail(rows))

RECURSIVE AllValidTargets(_)
AllValidTargets(dir) ==
    IF dir = <<>> THEN <<>>
    ELSE (IF Head(dir) = <<>> THEN <<>> ELSE ValidTargets(Tail(Head(dir))))
         \o AllValidTargets(Tail(dir))

\* C34: _load_batch_tasks returns exactly one target per data row that has at
\* least two columns and a known kind code (1, 11 or 17), in file and row
\* order, each file's header row skipped; a row with an unknown or
\* non-numeric kind code gives no target and drops no other valid row.
C34_LoaderKeepsValidRows ==
    (mode = "load" /\ pc = "loaded") => b.tasks = AllValidTargets(descriptors)

\* C35: in a batch the shared session is closed only after the last target
\* was attempted: no request of a later target goes out on a session that
\* close() was already called on.
C35_NoRequestOnClosedSession ==
    (mode \in {"batch", "batchcall"} /\ AtRequest) => ~sessionClosed

\* C36: simple_crawler.main, given a configuration that passes validation and
\* holds both 'oid' and 'type' with a known kind code, calls
\* crawl_single_target and returns that call's result.
C36_SimpleCallsOnce ==
    (/\ mode = "simple"
     /\ pc = "exit"
     /\ load_config(cfg)
     /\ {"oid", "type"} \subseteq cfg.keys
     /\ cfg.type \in {"1", "11", "17"})
    => (s.cur # NoTarget /\ mainRet = s.ret)

\* C37: after crawl_user_dynamics has written n descriptor rows (no write
\* failed), the _load_batch_tasks of a following batch run loads those n
\* targets.
C37_DiscoveryFeedsBatch ==
    (mode = "feed" /\ pc = "loaded" /\ faults = 0 /\ u.ret = "True") =>
        Len(b.tasks) = Len(descriptors) - 1
====
